---- MODULE Spec2Model ----
(***************************************************************************)
(* Eco-Lens backend: the update cycle (main.py), the time-series           *)
(* forecaster (forecast_service.py), the spatial interpolator              *)
(* (mesh_service.py) and the route planner (routing_service.py).           *)
(*                                                                         *)
(* Real-valued quantities are fixed-point integers; the scale of each is   *)
(* stated where it is introduced.  Each component has its own              *)
(* specification; the variables of the other components stay at their      *)
(* initial value.                                                          *)
(***************************************************************************)
EXTENDS Integers, Sequences, FiniteSets, TLC

(***************************************************************************)
(* Bounds of the model.                                                    *)
(***************************************************************************)
\* number of cameras of the model (CAMERAS holds six)
NumCams == 3
\* update cycles explored
MaxCycle == 12
\* weather refreshes explored
MaxWeather == 2
\* REST reads explored
MaxReads == 1
\* exceptions explored in one behaviour
MaxFaults == 1

(***************************************************************************)
(* Program constants.                                                      *)
(***************************************************************************)
\* main.py: a reading is persisted every 12th cycle
SaveEvery == 12
\* main.py: the grid is rebuilt every 3rd cycle
GridEvery == 3

\* a camera that has no entry in app_state["sensors"] yet
NoReading == [cycle |-> 0, weather |-> 0]

Cameras == 1..NumCams

VARIABLES
    \* ---- update cycle (main.py) ----
    simPc,           \* position of simulation_loop
    cycle,           \* its local counter
    camIdx,          \* index of the camera the for loop is at
    sensors,         \* app_state["sensors"]: camera -> reading (NoReading: no entry)
    gridOf,          \* app_state["grid"]: the cycle whose readings it was built from (0: none)
    statsOf,         \* app_state["stats"]: likewise
    forecastOf,      \* app_state["forecast"]: likewise
    currentWeather,  \* _current_weather, as a version number
    weatherPc,       \* position of weather_update_loop
    weatherCount,    \* weather values produced so far
    lastMessage,     \* <<the message of the last broadcast>>, or <<>>
    observed,        \* <<what the last REST read of the sensor list returned>>, or <<>>
    reads,           \* REST reads so far
    raised,          \* the except clause of the while body ran in this cycle
    saveFailed,      \* the cameras whose save_reading raised in this cycle
    broadcasts,      \* calls of broadcast_update in this cycle
    faults           \* exceptions raised so far

loopVars == <<simPc, cycle, camIdx, sensors, gridOf, statsOf, forecastOf,
              currentWeather, weatherPc, weatherCount, lastMessage, observed, reads,
              raised, saveFailed, broadcasts, faults>>

(***************************************************************************)
(* main.py: simulation_loop, weather_update_loop and the readers.          *)
(* A reading is abstracted to the cycle that produced it and the weather   *)
(* version it was computed from.  Tasks of one event loop interleave only  *)
(* at await points: another task runs only while simulation_loop is        *)
(* suspended.  Any call the loop makes may raise; the exceptions explored  *)
(* in one behaviour are bounded by MaxFaults.                              *)
(***************************************************************************)
InitLoop ==
    /\ simPc = "fetch0"
    /\ cycle = 0
    /\ camIdx = 1
    /\ sensors = [c \in Cameras |-> NoReading]
    /\ gridOf = 0
    /\ statsOf = 0
    /\ forecastOf = 0
    /\ currentWeather = 0
    /\ weatherPc = "fetch"
    /\ weatherCount = 0
    /\ lastMessage = <<>>
    /\ observed = <<>>
    /\ reads = 0
    /\ raised = FALSE
    /\ saveFailed = {}
    /\ broadcasts = 0
    /\ faults = 0

\* simulation_loop is suspended at an await
Suspended == simPc \in {"fetch0", "save", "broadcast", "sleep"}

\* the initial weather fetch completes, or fails and leaves the default
InitialFetch ==
    /\ simPc = "fetch0"
    /\ \/ /\ weatherCount < MaxWeather
          /\ weatherCount' = weatherCount + 1
          /\ currentWeather' = weatherCount + 1
       \/ UNCHANGED <<weatherCount, currentWeather>>
    /\ simPc' = "begin"
    /\ UNCHANGED <<cycle, camIdx, sensors, gridOf, statsOf, forecastOf,
                   weatherPc, lastMessage, observed, reads,
                   raised, saveFailed, broadcasts, faults>>

\* top of the while loop: cycle += 1
BeginCycle ==
    /\ simPc = "begin"
    /\ cycle < MaxCycle
    /\ cycle' = cycle + 1
    /\ camIdx' = 1
    /\ simPc' = "cam"
    /\ raised' = FALSE
    /\ saveFailed' = {}
    /\ broadcasts' = 0
    /\ UNCHANGED <<sensors, gridOf, statsOf, forecastOf, currentWeather,
                   weatherPc, weatherCount, lastMessage, observed, reads, faults>>

\* the position after the body of the for loop for camera camIdx
AfterCamera == IF camIdx < NumCams THEN "cam" ELSE "post"

\* where an exception raised in the while body goes when nothing catches it
LoopStops == "stopped"

\* where an exception raised in the while body goes: the except clause of the
\* while body logs it, and the sleep after it follows
ExceptClause == "sleep"

\* where an exception of save_reading goes when only the except clause of
\* the while body catches it
SaveAborts == ExceptClause

\* where an exception of save_reading goes: it is logged in the for loop,
\* which goes on
SaveExcept == AfterCamera

\* one iteration of the for loop up to the save: the engines run on
\* _current_weather and the reading is stored under the camera's id
ProcessCamera ==
    /\ simPc = "cam"
    /\ sensors' = [sensors EXCEPT ![camIdx] = [cycle |-> cycle, weather |-> currentWeather]]
    /\ IF cycle % SaveEvery = 0
          THEN /\ simPc' = "save"
               /\ UNCHANGED camIdx
          ELSE /\ simPc' = AfterCamera
               /\ camIdx' = IF camIdx < NumCams THEN camIdx + 1 ELSE camIdx
    /\ UNCHANGED <<cycle, gridOf, statsOf, forecastOf, currentWeather,
                   weatherPc, weatherCount, lastMessage, observed, reads,
                   raised, saveFailed, broadcasts, faults>>

\* one of the engine calls of the iteration raises: the reading of the camera
\* is not stored and the rest of the while body is skipped
CameraRaises ==
    /\ simPc = "cam"
    /\ faults < MaxFaults
    /\ faults' = faults + 1
    /\ simPc' = ExceptClause
    /\ raised' = TRUE
    /\ UNCHANGED <<cycle, camIdx, sensors, gridOf, statsOf, forecastOf, currentWeather,
                   weatherPc, weatherCount, lastMessage, observed, reads,
                   saveFailed, broadcasts>>

\* await save_reading(...) returns
SaveReturns ==
    /\ simPc = "save"
    /\ simPc' = AfterCamera
    /\ camIdx' = IF camIdx < NumCams THEN camIdx + 1 ELSE camIdx
    /\ UNCHANGED <<cycle, sensors, gridOf, statsOf, forecastOf, currentWeather,
                   weatherPc, weatherCount, lastMessage, observed, reads,
                   raised, saveFailed, broadcasts, faults>>

\* await save_reading(...) raises
SaveRaises ==
    /\ simPc = "save"
    /\ faults < MaxFaults
    /\ faults' = faults + 1
    /\ saveFailed' = saveFailed \cup {camIdx}
    /\ simPc' = SaveExcept
    /\ raised' = (SaveExcept = ExceptClause)
    /\ camIdx' = IF camIdx < NumCams /\ SaveExcept = AfterCamera THEN camIdx + 1 ELSE camIdx
    /\ UNCHANGED <<cycle, sensors, gridOf, statsOf, forecastOf, currentWeather,
                   weatherPc, weatherCount, lastMessage, observed, reads, broadcasts>>

\* the cycle of the readings when all cameras carry the same one
CycleOfSensors == cycle

\* after the for loop: grid, stats, forecast, then broadcast_update()
PostCycle ==
    /\ simPc = "post"
    /\ gridOf' = IF cycle % GridEvery = 0 THEN CycleOfSensors ELSE gridOf
    /\ statsOf' = CycleOfSensors
    /\ forecastOf' = CycleOfSensors
    /\ broadcasts' = broadcasts + 1
    /\ \/ \* no client connected: broadcast_update returns at once
          /\ simPc' = "sleep"
          /\ UNCHANGED <<lastMessage, faults>>
       \/ \* clients connected: the message is built, then sent
          /\ simPc' = "broadcast"
          /\ lastMessage' = <<[sensors |-> sensors,
                               grid |-> gridOf',
                               stats |-> statsOf',
                               forecast |-> forecastOf']>>
          /\ UNCHANGED faults
       \/ \* clients connected and building the message raises: broadcast_update
          \* logs the exception and returns
          /\ faults < MaxFaults
          /\ faults' = faults + 1
          /\ simPc' = "sleep"
          /\ UNCHANGED lastMessage
    /\ UNCHANGED <<cycle, camIdx, sensors, currentWeather,
                   weatherPc, weatherCount, observed, reads, raised, saveFailed>>

\* after the for loop generate_grid, compute_global_stats or generate_forecast
\* raises: what was stored before stays, the rest of the while body is skipped
PostRaises ==
    /\ simPc = "post"
    /\ faults < MaxFaults
    /\ faults' = faults + 1
    /\ \E stage \in {"grid", "stats", "forecast"} :
          /\ stage = "grid" => cycle % GridEvery = 0
          /\ gridOf' = IF stage # "grid" /\ cycle % GridEvery = 0 THEN CycleOfSensors
                       ELSE gridOf
          /\ statsOf' = IF stage = "forecast" THEN CycleOfSensors ELSE statsOf
    /\ simPc' = ExceptClause
    /\ raised' = TRUE
    /\ UNCHANGED <<cycle, camIdx, sensors, forecastOf, currentWeather,
                   weatherPc, weatherCount, lastMessage, observed, reads,
                   saveFailed, broadcasts>>

\* manager.broadcast returns; a send that raises only drops that client
BroadcastReturns ==
    /\ simPc = "broadcast"
    /\ simPc' = "sleep"
    /\ UNCHANGED <<cycle, camIdx, sensors, gridOf, statsOf, forecastOf, currentWeather,
                   weatherPc, weatherCount, lastMessage, observed, reads,
                   raised, saveFailed, broadcasts, faults>>

\* asyncio.sleep returns
Wake ==
    /\ simPc = "sleep"
    /\ simPc' = "begin"
    /\ UNCHANGED <<cycle, camIdx, sensors, gridOf, statsOf, forecastOf, currentWeather,
                   weatherPc, weatherCount, lastMessage, observed, reads,
                   raised, saveFailed, broadcasts, faults>>

\* lifespan at shutdown: _simulation_task.cancel(); the CancelledError is
\* thrown at the await the task is suspended at, and no except Exception
\* clause catches it
Cancel ==
    /\ Suspended
    /\ simPc' = "cancelled"
    /\ UNCHANGED <<cycle, camIdx, sensors, gridOf, statsOf, forecastOf, currentWeather,
                   weatherPc, weatherCount, lastMessage, observed, reads,
                   raised, saveFailed, broadcasts, faults>>

\* weather_update_loop: fetch_weather returns and _current_weather is replaced,
\* or it raises and the old value stays
WeatherFetched ==
    /\ Suspended
    /\ weatherPc = "fetch"
    /\ \/ /\ weatherCount < MaxWeather
          /\ weatherCount' = weatherCount + 1
          /\ currentWeather' = weatherCount + 1
       \/ UNCHANGED <<weatherCount, currentWeather>>
    /\ weatherPc' = "sleep"
    /\ UNCHANGED <<simPc, cycle, camIdx, sensors, gridOf, statsOf, forecastOf,
                   lastMessage, observed, reads,
                   raised, saveFailed, broadcasts, faults>>

WeatherWake ==
    /\ Suspended
    /\ weatherPc = "sleep"
    /\ weatherPc' = "fetch"
    /\ UNCHANGED <<simPc, cycle, camIdx, sensors, gridOf, statsOf, forecastOf,
                   currentWeather, weatherCount, lastMessage, observed, reads,
                   raised, saveFailed, broadcasts, faults>>

\* rest_routes._get_sensors_list: the values of the shared dict, as they are now
GetSensorsList ==
    /\ Suspended
    /\ reads < MaxReads
    /\ reads' = reads + 1
    /\ observed' = <<sensors>>
    /\ UNCHANGED <<simPc, cycle, camIdx, sensors, gridOf, statsOf, forecastOf,
                   currentWeather, weatherPc, weatherCount, lastMessage,
                   raised, saveFailed, broadcasts, faults>>

NextLoop ==
    \/ InitialFetch
    \/ BeginCycle
    \/ ProcessCamera
    \/ CameraRaises
    \/ SaveReturns
    \/ SaveRaises
    \/ PostCycle
    \/ PostRaises
    \/ BroadcastReturns
    \/ Wake
    \/ Cancel
    \/ WeatherFetched
    \/ WeatherWake
    \/ GetSensorsList

(***************************************************************************)
(* Claims about the update cycle.                                          *)
(***************************************************************************)
\* C1: a concurrent reader of the current-readings set never observes a torn
\* update: every location of the set it reads carries the readings of one and
\* the same cycle.
C1_NoTornRead ==
    observed # <<>> =>
        \A c, d \in Cameras : observed[1][c].cycle = observed[1][d].cycle

\* C10: within one update cycle every location's dispersion computation read
\* the same WeatherState: when the for loop of a cycle is over, all readings
\* of that cycle were computed from one weather version.
C10_OneWeatherPerCycle ==
    simPc = "post" =>
        \A c, d \in Cameras : sensors[c].weather = sensors[d].weather

\* C11: in every update cycle that completes, the broadcast step runs exactly
\* once, after the readings, stats and forecast of the cycle were stored, and
\* the snapshot it carries has readings, grid, forecast and stats that were all
\* computed from the readings of that cycle.
C11_SnapshotOfCycle ==
    simPc = "broadcast" =>
        /\ broadcasts = 1
        /\ statsOf = cycle /\ forecastOf = cycle
        /\ \A c \in Cameras : sensors[c].cycle = cycle
        /\ \A c \in Cameras : lastMessage[1].sensors[c].cycle = cycle
        /\ lastMessage[1].stats = cycle
        /\ lastMessage[1].forecast = cycle
        /\ lastMessage[1].grid = cycle

\* the step in which save_reading raised for camera camIdx
SaveRaised == saveFailed' # saveFailed /\ saveFailed' = saveFailed \cup {camIdx}

\* C12: a failure of save_reading for a location does not stop the cycle: the
\* reading of the location stays in the current readings, the for loop goes on
\* with the remaining locations, and the stats update and the broadcast of the
\* cycle take place.
C12_SaveFailureContained ==
    /\ [][SaveRaised =>
             /\ sensors' = sensors
             /\ sensors[camIdx].cycle = cycle
             /\ simPc' = AfterCamera
             /\ ~raised']_loopVars
    /\ []((simPc \in {"broadcast", "sleep"} /\ saveFailed # {} /\ ~raised) =>
             /\ \A c \in Cameras : sensors[c].cycle = cycle
             /\ statsOf = cycle
             /\ broadcasts = 1)

\* C12 witness: the message of a cycle is being broadcast after save_reading
\* raised for a camera of that cycle
C12_Witness ==
    /\ simPc = "broadcast"
    /\ saveFailed # {}
    /\ ~raised
    /\ \A c \in Cameras : sensors[c].cycle = cycle
    /\ lastMessage[1].stats = cycle
    /\ \A c \in Cameras : lastMessage[1].sensors[c].cycle = cycle

\* the positions of simulation_loop while its task lives, and after its cancellation
LoopPositions == {"fetch0", "begin", "cam", "save", "post", "broadcast", "sleep", "cancelled"}

\* C13: no failure inside a cycle ends the update loop: an exception raised
\* in the while body takes the loop to its sleep, from the sleep the loop goes
\* to the next cycle, and the loop leaves its positions only by cancellation,
\* which happens at an await.
C13_FailureNotFatal ==
    /\ [](simPc \in LoopPositions)
    /\ [][/\ (raised' /\ ~raised) => simPc' = "sleep"
          /\ (simPc = "sleep" /\ simPc' # "sleep") => simPc' \in {"begin", "cancelled"}
          /\ (simPc = "begin" /\ simPc' # "begin") => (simPc' = "cam" /\ cycle' = cycle + 1)
          /\ (simPc # "cancelled" /\ simPc' = "cancelled") => Suspended
          /\ simPc = "cancelled" => simPc' = "cancelled"]_loopVars

\* C13 witness: a cycle has begun after the cycle before it was cut short by
\* an engine call that raised behind the first camera: the first reading is of
\* the cycle before, the last one and the stats are older
C13_Witness ==
    /\ simPc = "cam" /\ camIdx = 1 /\ ~raised
    /\ faults > 0
    /\ cycle >= 3
    /\ sensors[1].cycle = cycle - 1
    /\ sensors[NumCams].cycle = cycle - 2
    /\ statsOf = cycle - 2

(***************************************************************************)
(* forecast_service.py: ForecastService.                                   *)
(* PM2.5 values, levels, trends and margins are in thousandths of a ug/m3; *)
(* time is in minutes since an epoch that starts a day.                    *)
(***************************************************************************)
\* bounds of the forecaster model
\* ingestion calls (record_observation, add_reading) explored after Init
MaxIngest == 2
\* clock advances explored
MaxTicks == 1

\* forecast_service.py constants
SEASON_LENGTH == 24
MAX_HISTORY == 720
MAX_HOURLY == 72
\* DEFAULT_ALPHA = 0.3, DEFAULT_BETA = 0.1, DEFAULT_GAMMA = 0.2, in tenths
ALPHA_TENTHS == 3
BETA_TENTHS == 1
GAMMA_TENTHS == 2
\* minimum number of short-interval readings for a measured residual deviation
MIN_RESIDUAL_HISTORY == 10
\* number of trailing readings the residual deviation is taken over
RESIDUAL_WINDOW == 60
\* 5-second intervals per minute
STEPS_PER_MINUTE == 12

VARIABLES
    fsvc,     \* the ForecastService: its six per-sensor dicts
    now,      \* the wall clock, minutes
    ingests,  \* ingestion calls so far
    ticks,    \* clock advances so far
    fcCall,   \* the last generate_forecast call: its arguments and its outcome
    obsHours, \* per sensor, the clock hour (hours since the epoch of the model)
              \* in which each observation of its hourly accumulator arrived
    arrived   \* per sensor, everything ever appended to its hourly history
              \* and every value ever recorded, in their order of arrival

fcVars == <<fsvc, now, ingests, ticks, fcCall, obsHours, arrived>>

Max(a, b) == IF a >= b THEN a ELSE b
Min(a, b) == IF a <= b THEN a ELSE b
Abs(a) == IF a >= 0 THEN a ELSE -a

\* sum(s), split in halves to keep the evaluation shallow
RECURSIVE SumSeq(_)
SumSeq(s) ==
    IF s = <<>> THEN 0
    ELSE IF Len(s) = 1 THEN s[1]
    ELSE LET h == Len(s) \div 2
         IN SumSeq(SubSeq(s, 1, h)) + SumSeq(SubSeq(s, h + 1, Len(s)))

\* the last element of a non-empty list: s[-1]
Last(list) == list[Len(list)]

\* the last k elements of s: s[-k:]
LastK(s, k) == IF Len(s) <= k THEN s ELSE SubSeq(s, Len(s) - k + 1, Len(s))

\* floor of the square root (math.sqrt on the fixed-point grid)
RECURSIVE SqrtBetween(_, _, _)
SqrtBetween(n, lo, hi) ==
    IF lo >= hi THEN lo
    ELSE LET mid == (lo + hi + 1) \div 2
         IN IF mid * mid <= n THEN SqrtBetween(n, mid, hi)
                              ELSE SqrtBetween(n, lo, mid - 1)
Isqrt(n) == IF n <= 0 THEN 0 ELSE SqrtBetween(n, 0, Min(n, 46340))

\* round(x, 1) of a value in thousandths: to the nearest hundred, ties to even
Round1(x) ==
    LET q == x \div 100
        r == x % 100
    IN IF r > 50 \/ (r = 50 /\ q % 2 = 1) THEN (q + 1) * 100 ELSE q * 100

\* a dict: a function whose domain is the set of keys
EmptyDict == [k \in {} |-> 0]

\* a write that reaches the entries of all keys
PutEverywhere(d, k, v) == [x \in DOMAIN d \cup {k} |-> v]

\* d[k] = v
Put(d, k, v) == [x \in DOMAIN d \cup {k} |-> IF x = k THEN v ELSE d[x]]

\* the same for the bookkeeping of the model (obsHours, arrived)
Noted(d, k, v) == [x \in DOMAIN d \cup {k} |-> IF x = k THEN v ELSE d[x]]
Get(d, k, default) == IF k \in DOMAIN d THEN d[k] ELSE default

\* ForecastService.__init__
NewForecastService ==
    [history |-> EmptyDict, level |-> EmptyDict, trend |-> EmptyDict,
     hourly_history |-> EmptyDict, hourly_buf |-> EmptyDict, last_hour |-> EmptyDict]

\* an hourly history that is never cut
KeepAll(h) == h

\* deque(maxlen=_MAX_HISTORY).append
DequeAppend(dq, x) == LastK(Append(dq, x), MAX_HISTORY)

\* hourly history pruned to the last 72 entries
Prune(h) == IF Len(h) > MAX_HOURLY THEN LastK(h, MAX_HOURLY) ELSE h

\* _update_smoothing: Holt's linear update of level and trend
_update_smoothing(fs, sensor_id, observation) ==
    LET prev_level == fs.level[sensor_id]
        prev_trend == fs.trend[sensor_id]
        new_level == (ALPHA_TENTHS * observation
                      + (10 - ALPHA_TENTHS) * (prev_level + prev_trend)) \div 10
        new_trend == (BETA_TENTHS * (new_level - prev_level)
                      + (10 - BETA_TENTHS) * prev_trend) \div 10
    IN [fs EXCEPT !.level[sensor_id] = new_level, !.trend[sensor_id] = new_trend]

\* _accumulate_hourly at wall-clock time t: a changed hour of day commits the
\* average of the buffer, stamped with the hour before the current one
_accumulate_hourly(fs, t, sensor_id, pm25) ==
    LET current_hour == (t \div 60) % 24
        f1 == IF sensor_id \in DOMAIN fs.last_hour THEN fs
              ELSE [fs EXCEPT !.last_hour = Put(fs.last_hour, sensor_id, current_hour)]
        buf == f1.hourly_buf[sensor_id]
        hourly_avg == SumSeq(buf) \div Len(buf)
        ts == (t \div 60) - 1
        committed == Prune(Append(Get(f1.hourly_history, sensor_id, <<>>),
                                  <<ts, hourly_avg>>))
        f2 == IF current_hour # f1.last_hour[sensor_id]
              THEN [f1 EXCEPT
                      !.hourly_history = IF buf # <<>>
                                         THEN Put(f1.hourly_history, sensor_id, committed)
                                         ELSE f1.hourly_history,
                      !.hourly_buf[sensor_id] = <<>>,
                      !.last_hour[sensor_id] = current_hour]
              ELSE f1
    IN [f2 EXCEPT !.hourly_buf[sensor_id] = Append(f2.hourly_buf[sensor_id], pm25)]

\* record_observation(sensor_id, pm25) at wall-clock time t
record_observation(fs, t, sensor_id, pm25) ==
    LET f0 == IF sensor_id \in DOMAIN fs.history THEN fs
              ELSE [history |-> Put(fs.history, sensor_id, <<>>),
                    level |-> Put(fs.level, sensor_id, pm25),
                    trend |-> Put(fs.trend, sensor_id, 0),
                    hourly_buf |-> Put(fs.hourly_buf, sensor_id, <<>>),
                    hourly_history |-> Put(fs.hourly_history, sensor_id, <<>>),
                    last_hour |-> fs.last_hour]
        f1 == [f0 EXCEPT !.history[sensor_id] = DequeAppend(f0.history[sensor_id], pm25)]
        f2 == _update_smoothing(f1, sensor_id, pm25)
    IN _accumulate_hourly(f2, t, sensor_id, pm25)

\* add_reading(sensor_id, timestamp, pm25)
add_reading(fs, sensor_id, timestamp, pm25) ==
    LET f0 == IF sensor_id \in DOMAIN fs.hourly_history THEN fs
              ELSE [hourly_history |-> Put(fs.hourly_history, sensor_id, <<>>),
                    level |-> Put(fs.level, sensor_id, pm25),
                    trend |-> Put(fs.trend, sensor_id, 0),
                    history |-> Put(fs.history, sensor_id, <<>>),
                    hourly_buf |-> Put(fs.hourly_buf, sensor_id, <<>>),
                    last_hour |-> fs.last_hour]
    IN [f0 EXCEPT !.hourly_history[sensor_id] =
                      Prune(Append(f0.hourly_history[sensor_id], <<timestamp, pm25>>))]

\* _compute_residual_std: 3.0 with fewer than 10 readings, else the standard
\* deviation of the last 60, at least 1.0
_compute_residual_std(fs, sensor_id) ==
    LET history == Get(fs.history, sensor_id, <<>>)
        recent == LastK(history, RESIDUAL_WINDOW)
        mean == SumSeq(recent) \div Len(recent)
        variance == SumSeq([i \in 1..Len(recent) |->
                              (recent[i] - mean) * (recent[i] - mean)]) \div Len(recent)
    IN IF Len(history) < MIN_RESIDUAL_HISTORY THEN 3000
       ELSE Max(1000, Isqrt(variance))

\* _hour_of_day_adjustment, tabulated per half hour of the day, in thousandths:
\* 1 + 0.15 exp(-((h-8.5)/1.5)^2/2) + 0.20 exp(-((h-17.5)/1.8)^2/2) - 0.10 [h<6 or h>22]
TodTable ==
    << 900,  900,  900,  900,  900,  900,  900,  901,  902,  904,  910,  920,
      1037, 1062, 1091, 1120, 1142, 1150, 1142, 1120, 1091, 1062, 1038, 1021,
      1012, 1009, 1010, 1018, 1030, 1050, 1076, 1108, 1141, 1171, 1192, 1200,
      1192, 1171, 1141, 1108, 1076, 1050, 1030, 1017, 1009,  904,  902,  901>>
_hour_of_day_adjustment(target_minute) == TodTable[(target_minute \div 30) + 1]

\* the smoothing pass of _holt_winters over data[t+1..n] (t counts from 0 as in
\* the source): the final level and trend, all seasonal estimates, the residuals.
\* (The comparison of next with st makes TLC evaluate next before it recurses.)
RECURSIVE HwPass(_, _, _)
HwPass(data, t, st) ==
    IF t >= Len(data) THEN st
    ELSE LET y == data[t + 1]
             s_prev == st.seasonals[t - SEASON_LENGTH + 1]
             y_hat == st.level + st.trend + s_prev
             new_level == (ALPHA_TENTHS * (y - s_prev)
                           + (10 - ALPHA_TENTHS) * (st.level + st.trend)) \div 10
             new_trend == (BETA_TENTHS * (new_level - st.level)
                           + (10 - BETA_TENTHS) * st.trend) \div 10
             new_seasonal == (GAMMA_TENTHS * (y - new_level)
                              + (10 - GAMMA_TENTHS) * s_prev) \div 10
             next == [level |-> new_level, trend |-> new_trend,
                      seasonals |-> Append(st.seasonals, new_seasonal),
                      residuals |-> Append(st.residuals, y - y_hat)]
         IN IF next = st THEN st ELSE HwPass(data, t + 1, next)

\* _holt_winters(data, SEASON_LENGTH, alpha, beta, gamma): the forecasts for the
\* horizons 1..SEASON_LENGTH and the one-step-ahead residuals
_holt_winters(data) ==
    LET n == Len(data)
        m == SEASON_LENGTH
        first_season == SubSeq(data, 1, m)
        level0 == SumSeq(first_season) \div m
        second_season == SubSeq(data, m + 1, 2 * m)
        trend0 == IF n >= 2 * m
                  THEN SumSeq([i \in 1..m |->
                                 (second_season[i] - first_season[i]) \div m]) \div m
                  ELSE 0
        seasonal0 == [i \in 1..m |-> data[i] - level0]
        pass == HwPass(data, m, [level |-> level0, trend |-> trend0,
                                 seasonals |-> seasonal0, residuals |-> <<>>])
        s_idx(h) == Len(pass.seasonals) - m + ((h - 1) % m)
    IN [forecasts |-> [h \in 1..m |->
                         pass.level + h * pass.trend + pass.seasonals[s_idx(h) + 1]],
        residuals |-> pass.residuals,
        level |-> pass.level, trend |-> pass.trend, seasonals |-> pass.seasonals]

\* the standard error generate_forecast derives from the residuals: sqrt of
\* their mean square (squares taken in hundredths to stay within 32 bits)
HwSe(residuals) ==
    LET sq == [i \in 1..Len(residuals) |->
                 (residuals[i] \div 10) * (residuals[i] \div 10)]
    IN IF residuals # <<>> THEN 10 * Isqrt(SumSeq(sq) \div Len(residuals))
       ELSE 3000

\* the jitter random.gauss(0, 0.05 se) adds to point i: k(i) standard deviations
Jitter(pattern, i) ==
    CASE pattern = "zero" -> 0
      [] pattern = "up" -> 2
      [] pattern = "alternate" -> IF i % 2 = 0 THEN 3 ELSE -3
JitterPatterns == {"zero", "up", "alternate"}

\* a lower bound that is allowed to go below zero
confidence_lower_unclamped(predicted, margin) == Round1(predicted - margin)

\* confidence_lower = max(0.0, round(predicted - margin, 1))
confidence_lower(predicted, margin) == Max(0, Round1(predicted - margin))

\* one forecast point (the body of the for loop of generate_forecast);
\* hw is <<the Holt-Winters result>> when the seasonal regime applies, else <<>>
ForecastPoint(fs, t, sensor_id, interval_minutes, hw, jitter, i) ==
    LET minutes_ahead == i * interval_minutes
        seasonal == hw # <<>>
        \* seasonal regime: interpolation between the hourly forecasts
        hw_idx == minutes_ahead - 60
        lower_idx == Max(0, hw_idx \div 60)
        upper_idx == Min(SEASON_LENGTH - 1, lower_idx + 1)
        frac == hw_idx - 60 * lower_idx
        fcs == hw[1].forecasts
        hw_predicted == IF lower_idx < SEASON_LENGTH
                        THEN (fcs[lower_idx + 1] * (60 - frac)
                              + fcs[upper_idx + 1] * frac) \div 60
                        ELSE fcs[SEASON_LENGTH]
        \* fallback regime: Holt's line times the hour-of-day adjustment
        level == Get(fs.level, sensor_id, 15000)
        trend == Get(fs.trend, sensor_id, 0)
        steps_ahead == minutes_ahead * STEPS_PER_MINUTE
        base_forecast == level + trend * steps_ahead
        target_minute == ((t % 1440) + minutes_ahead) % 1440
        \* base_forecast * tod_adj, as base + base * (tod_adj - 1) to stay within 32 bits
        holt_predicted == base_forecast
            + (base_forecast * (_hour_of_day_adjustment(target_minute) - 1000)) \div 1000
        estimate == IF seasonal THEN hw_predicted ELSE holt_predicted
        se == IF seasonal THEN hw[1].se ELSE _compute_residual_std(fs, sensor_id)
        predicted == Max(1000, Round1(estimate + Jitter(jitter, i) * ((se * 5) \div 100)))
        horizon_factor == Isqrt((1000000 * Max(30, minutes_ahead)) \div 30)
        margin == (((se * 196) \div 100) * horizon_factor) \div 1000
    IN [minutes_ahead |-> minutes_ahead,
        estimate |-> estimate,
        regime |-> IF seasonal THEN "seasonal" ELSE "fallback",
        predicted_pm25 |-> predicted,
        confidence_lower |-> confidence_lower(predicted, margin),
        confidence_upper |-> Round1(predicted + margin)]

\* an interval count that includes both ends of the horizon
TotalIntervalsInclusive(hours_ahead, interval_minutes) ==
    (hours_ahead * 60) \div interval_minutes + 1

\* total_intervals = (hours_ahead * 60) // interval_minutes
TotalIntervals(hours_ahead, interval_minutes) == (hours_ahead * 60) \div interval_minutes

\* a seasonal regime entered with one season of hourly history
SeasonalWithOneSeason(hw_values, hw_raises) ==
    Len(hw_values) >= SEASON_LENGTH /\ ~hw_raises

\* hw_forecasts is not None and hw_se is not None: the history held at least
\* 2 * SEASON_LENGTH entries and the try block did not raise
SeasonalApplies(hw_values, hw_raises) ==
    Len(hw_values) >= 2 * SEASON_LENGTH /\ ~hw_raises

\* generate_forecast(sensor_id, hours_ahead, interval_minutes) at wall-clock
\* time t.  hw_raises: the seasonal computation raises inside the try block.
generate_forecast(fs, t, sensor_id, hours_ahead, interval_minutes, hw_raises, jitter) ==
    LET hourly_data == Get(fs.hourly_history, sensor_id, <<>>)
        hw_values == [i \in 1..Len(hourly_data) |-> hourly_data[i][2]]
        hw == IF SeasonalApplies(hw_values, hw_raises)
              THEN LET r == _holt_winters(hw_values)
                   IN <<[forecasts |-> r.forecasts, se |-> HwSe(r.residuals),
                         level |-> r.level, trend |-> r.trend, seasonals |-> r.seasonals]>>
              ELSE <<>>
        total_intervals == TotalIntervals(hours_ahead, interval_minutes)
    IN IF interval_minutes = 0
       THEN [outcome |-> "raised", points |-> <<>>]
       ELSE [outcome |-> "returned",
             points |-> [i \in 1..Max(0, total_intervals) |->
                           ForecastPoint(fs, t, sensor_id, interval_minutes, hw, jitter, i)]]

\* ---- the forecaster's environment: the sensors and inputs explored ----
ObsIds == {"cam-001", "cam-002"}
AskIds == {"cam-001", "cam-never-seen"}
ObsValues == {31000, 30000}
HoursAhead == {-1, 0, 2, 25}
IntervalMinutes == {-30, 0, 30, 45, 60}

\* bulk-loaded hourly histories (add_reading once per hour from hour 0 on)
RECURSIVE BulkLoad(_, _, _, _)
BulkLoad(fs, sensor_id, values, k) ==
    IF k > Len(values) THEN fs
    ELSE LET next == add_reading(fs, sensor_id, k - 1, values[k])
         IN IF next = fs THEN fs ELSE BulkLoad(next, sensor_id, values, k + 1)

\* a run of record_observation calls at one wall-clock time
RECURSIVE Observe(_, _, _, _, _)
Observe(fs, t, sensor_id, values, k) ==
    IF k > Len(values) THEN fs
    ELSE LET next == record_observation(fs, t, sensor_id, values[k])
         IN IF next = fs THEN fs ELSE Observe(next, t, sensor_id, values, k + 1)

\* the same, evaluated in runs of 30 calls
RECURSIVE ObserveInRuns(_, _, _, _, _)
ObserveInRuns(fs, t, sensor_id, values, from) ==
    IF from > Len(values) THEN fs
    ELSE LET to == Min(Len(values), from + 29)
             next == Observe(fs, t, sensor_id, SubSeq(values, from, to), 1)
         IN IF next = fs THEN fs ELSE ObserveInRuns(next, t, sensor_id, values, to + 1)

Flat48 == [i \in 1..48 |-> 20000]
Short47 == [i \in 1..47 |-> 20000]
Wave50 == [i \in 1..50 |-> 20000 + 3000 * ((i % 24) \div 6) + 700 * (i % 5)]
Long73 == [i \in 1..73 |-> 15000 + 500 * (i % 7)]
Steady12 == [i \in 1..12 |-> 30000 + 200 * (i % 3)]
Declining == <<31000, 30000>>
Busy721 == [i \in 1..721 |-> 30000 + 100 * (i % 4)]

StartTimes == {7 * 60 + 30}

\* what the service was fed before the exploration starts
InitialFeeds ==
    {[op |-> "none", values |-> <<>>]}
    \cup {[op |-> "add_reading", values |-> v] : v \in {Flat48, Short47, Wave50, Long73}}
    \cup {[op |-> "record_observation", values |-> v] : v \in {Steady12, Declining, Busy721}}

ServiceAfter(feed, t) ==
    CASE feed.op = "none" -> NewForecastService
      [] feed.op = "add_reading" -> BulkLoad(NewForecastService, "cam-001", feed.values, 1)
      [] feed.op = "record_observation" ->
            ObserveInRuns(NewForecastService, t, "cam-001", feed.values, 1)

ArrivedAfter(feed) ==
    CASE feed.op = "none" -> [hourly |-> EmptyDict, recent |-> EmptyDict]
      [] feed.op = "add_reading" ->
            [hourly |-> Noted(EmptyDict, "cam-001",
                            [k \in 1..Len(feed.values) |-> <<k - 1, feed.values[k]>>]),
             recent |-> Noted(EmptyDict, "cam-001", <<>>)]
      [] feed.op = "record_observation" ->
            [hourly |-> Noted(EmptyDict, "cam-001", <<>>),
             recent |-> Noted(EmptyDict, "cam-001", feed.values)]

InitialServices(t) == {ServiceAfter(feed, t) : feed \in InitialFeeds}

NoCall == [outcome |-> "none", points |-> <<>>, sensor_id |-> "", hours_ahead |-> 0,
           interval_minutes |-> 0, hw_raised |-> FALSE]

InitForecast ==
    /\ now \in StartTimes
    /\ \E feed \in InitialFeeds :
          /\ fsvc = ServiceAfter(feed, now)
          /\ arrived = ArrivedAfter(feed)
    /\ ingests = 0
    /\ ticks = 0
    /\ fcCall = NoCall
    /\ obsHours = [s \in DOMAIN fsvc.hourly_buf |->
                     [i \in 1..Len(fsvc.hourly_buf[s]) |-> now \div 60]]

\* the environment feeds the service, then asks for one forecast
Feeding == fcCall.outcome = "none"

RecordObservation ==
    /\ Feeding
    /\ ingests < MaxIngest
    /\ \E sensor_id \in ObsIds, pm25 \in ObsValues :
          /\ fsvc' = record_observation(fsvc, now, sensor_id, pm25)
          /\ obsHours' = Noted(obsHours, sensor_id,
                             IF Len(fsvc'.hourly_buf[sensor_id]) = 1 THEN <<now \div 60>>
                             ELSE Append(obsHours[sensor_id], now \div 60))
          /\ LET was == Get(fsvc.hourly_history, sensor_id, <<>>)
                 is == fsvc'.hourly_history[sensor_id]
             IN arrived' =
                   [hourly |-> Noted(arrived.hourly, sensor_id,
                                   IF is = was THEN Get(arrived.hourly, sensor_id, <<>>)
                                   ELSE Append(arrived.hourly[sensor_id], Last(is))),
                    recent |-> Noted(arrived.recent, sensor_id,
                                   Append(Get(arrived.recent, sensor_id, <<>>), pm25))]
    /\ ingests' = ingests + 1
    /\ UNCHANGED <<now, ticks, fcCall>>

AddReading ==
    /\ Feeding
    /\ ingests < MaxIngest
    /\ fsvc' = add_reading(fsvc, "cam-001", now \div 60, 20000)
    /\ obsHours' = IF "cam-001" \in DOMAIN obsHours THEN obsHours
                   ELSE Noted(obsHours, "cam-001", <<>>)
    /\ arrived' =
          [hourly |-> Noted(arrived.hourly, "cam-001",
                          Append(Get(arrived.hourly, "cam-001", <<>>),
                                 <<now \div 60, 20000>>)),
           recent |-> Noted(arrived.recent, "cam-001",
                          Get(arrived.recent, "cam-001", <<>>))]
    /\ ingests' = ingests + 1
    /\ UNCHANGED <<now, ticks, fcCall>>

\* the wall clock advances by half an hour or by a day
Tick ==
    /\ Feeding
    /\ ticks < MaxTicks
    /\ \E delta \in {30, 1440} : now' = now + delta
    /\ ticks' = ticks + 1
    /\ UNCHANGED <<fsvc, ingests, fcCall, obsHours, arrived>>

GenerateForecast ==
    /\ Feeding
    /\ \E sensor_id \in AskIds, hours_ahead \in HoursAhead,
          interval_minutes \in IntervalMinutes, hw_raises \in BOOLEAN,
          jitter \in JitterPatterns :
          /\ hw_raises =>
                Len(Get(fsvc.hourly_history, sensor_id, <<>>)) >= 2 * SEASON_LENGTH
          \* horizons beyond one season are asked in whole hours, without jitter
          /\ hours_ahead > SEASON_LENGTH => (interval_minutes = 60 /\ jitter = "zero")
          /\ LET r == generate_forecast(fsvc, now, sensor_id, hours_ahead,
                                        interval_minutes, hw_raises, jitter)
             IN fcCall' = [outcome |-> r.outcome, points |-> r.points,
                           sensor_id |-> sensor_id, hours_ahead |-> hours_ahead,
                           interval_minutes |-> interval_minutes, hw_raised |-> hw_raises]
    /\ UNCHANGED <<fsvc, now, ingests, ticks, obsHours, arrived>>

NextForecast ==
    \/ RecordObservation
    \/ AddReading
    \/ Tick
    \/ GenerateForecast

(***************************************************************************)
(* Claims about the forecaster.                                            *)
(***************************************************************************)
\* C2: generate_forecast never hard-fails: whatever the location id, the
\* history and the integers hours_ahead and interval_minutes are, it returns
\* a list of points and does not raise.
C2_NeverRaises == fcCall.outcome # "raised"

\* C5: every returned point has 0 <= confidence_lower <= predicted_pm25 <=
\* confidence_upper, in the seasonal and in the fallback regime.
C5_Bracketed ==
    \A i \in 1..Len(fcCall.points) :
        LET p == fcCall.points[i]
        IN /\ 0 <= p.confidence_lower
           /\ p.confidence_lower <= p.predicted_pm25
           /\ p.predicted_pm25 <= p.confidence_upper

\* C5 witness: a seasonal forecast whose residuals are all zero (zero margin)
\* has been returned, and so has a fallback one
C5_Witness ==
    /\ fcCall.hours_ahead = 2 /\ fcCall.interval_minutes = 30
    /\ Len(fcCall.points) >= 2
    /\ fcCall.points[1].regime = "seasonal"
    /\ fcCall.points[2].confidence_lower = fcCall.points[2].confidence_upper

\* C6: within one forecast, the confidence width at horizon 2h is at least
\* the confidence width at horizon h, for every h > 0 with both in the forecast.
Width(p) == p.confidence_upper - p.confidence_lower
C6_WidthWidens ==
    \A i, j \in 1..Len(fcCall.points) :
        j = 2 * i => Width(fcCall.points[j]) >= Width(fcCall.points[i])

\* the number of points the forecaster returns for a location it never observed
NeverObservedCount(hours_ahead, interval_minutes) ==
    Len(generate_forecast(fsvc, now, "cam-never-seen", hours_ahead, interval_minutes,
                          FALSE, "zero").points)

\* the points of the last forecast lie i * interval_minutes after the call, in
\* order of strictly increasing time
PointsInStep ==
    /\ \A i \in 1..Len(fcCall.points) :
          fcCall.points[i].minutes_ahead = i * fcCall.interval_minutes
    /\ \A i, j \in 1..Len(fcCall.points) :
          i < j => fcCall.points[i].minutes_ahead < fcCall.points[j].minutes_ahead

\* C19 as stated: for S > 0, generate_forecast(location, H, S) returns exactly
\* floor(60 * H / S) points, the i-th lying i * S minutes after the call time,
\* in order of strictly increasing time, and as many for a never-observed
\* location.
C19_FloorCount ==
    (fcCall.outcome # "none" /\ fcCall.interval_minutes > 0) =>
        /\ fcCall.outcome = "returned"
        /\ Len(fcCall.points) = (60 * fcCall.hours_ahead) \div fcCall.interval_minutes
        /\ PointsInStep
        /\ NeverObservedCount(fcCall.hours_ahead, fcCall.interval_minutes) = Len(fcCall.points)

\* C19, amended: the number of points is floor(60 * H / S) when that is not
\* negative and 0 otherwise (H < 0); the rest as stated.
C19_FloorCountOrNone ==
    (fcCall.outcome # "none" /\ fcCall.interval_minutes > 0) =>
        /\ fcCall.outcome = "returned"
        /\ Len(fcCall.points)
           = Max(0, (60 * fcCall.hours_ahead) \div fcCall.interval_minutes)
        /\ PointsInStep
        /\ NeverObservedCount(fcCall.hours_ahead, fcCall.interval_minutes) = Len(fcCall.points)

\* C19 witness: a forecast of 2 hours in steps of 45 minutes for an observed
\* location came back with two points, 45 and 90 minutes after the call
C19_Witness ==
    /\ fcCall.outcome = "returned"
    /\ fcCall.sensor_id = "cam-001"
    /\ "cam-001" \in DOMAIN fsvc.history
    /\ fcCall.hours_ahead = 2 /\ fcCall.interval_minutes = 45
    /\ Len(fcCall.points) = 2
    /\ fcCall.points[1].minutes_ahead = 45
    /\ fcCall.points[2].minutes_ahead = 90

\* the hourly values of the location of the last forecast
AskedHourly ==
    LET hourly_data == Get(fsvc.hourly_history, fcCall.sensor_id, <<>>)
    IN [i \in 1..Len(hourly_data) |-> hourly_data[i][2]]

\* the fallback estimate of a location without state: 15.0 with trend 0,
\* times the hour-of-day adjustment of the target time
DefaultEstimate(minutes_ahead) ==
    15000 + (15000 * (_hour_of_day_adjustment(((now % 1440) + minutes_ahead) % 1440)
                      - 1000)) \div 1000

\* C23: the regime is decided once per generate_forecast call: every point is
\* seasonal exactly when the hourly history holds at least 48 entries and the
\* seasonal computation did not fail; otherwise every point is a fallback
\* point, from level 15.0 and trend 0 for a location with no state.
C23_RegimeBySufficiency ==
    fcCall.outcome = "returned" =>
        \A i \in 1..Len(fcCall.points) :
            LET p == fcCall.points[i]
            IN /\ p.regime = "seasonal"
                     <=> (Len(AskedHourly) >= 48 /\ ~fcCall.hw_raised)
               /\ p.regime # "seasonal" => p.regime = "fallback"
               /\ (p.regime = "fallback" /\ fcCall.sensor_id \notin DOMAIN fsvc.level)
                     => p.estimate = DefaultEstimate(p.minutes_ahead)

\* C23 witness: a forecast of several seasonal points from exactly 48 hourly
\* entries
C23_Witness ==
    /\ fcCall.outcome = "returned"
    /\ Len(AskedHourly) = 48
    /\ Len(fcCall.points) >= 2
    /\ \A i \in 1..Len(fcCall.points) : fcCall.points[i].regime = "seasonal"

\* C24: in the seasonal regime the estimate before jitter at every whole-hour
\* horizon h >= 1 is level + h * trend + seasonalIndex[(h - 1) mod 24], with
\* the final level, trend and seasonal indices of the smoothing pass.
C24_SeasonalFormula ==
    (fcCall.outcome = "returned" /\ Len(AskedHourly) >= 2 * SEASON_LENGTH
                                 /\ ~fcCall.hw_raised) =>
        LET r == _holt_winters(AskedHourly)
            last_season == LastK(r.seasonals, SEASON_LENGTH)
        IN \A i \in 1..Len(fcCall.points) :
              LET p == fcCall.points[i]
                  h == p.minutes_ahead \div 60
              IN (p.minutes_ahead % 60 = 0 /\ h >= 1) =>
                    p.estimate = r.level + h * r.trend
                                 + last_season[((h - 1) % SEASON_LENGTH) + 1]

\* the same for the horizons of the first 24 hours
C24_WithinOneSeason ==
    (fcCall.outcome = "returned" /\ Len(AskedHourly) >= 2 * SEASON_LENGTH
                                 /\ ~fcCall.hw_raised) =>
        LET r == _holt_winters(AskedHourly)
            last_season == LastK(r.seasonals, SEASON_LENGTH)
        IN \A i \in 1..Len(fcCall.points) :
              LET p == fcCall.points[i]
                  h == p.minutes_ahead \div 60
              IN (p.minutes_ahead % 60 = 0 /\ h >= 1 /\ h <= SEASON_LENGTH) =>
                    p.estimate = r.level + h * r.trend
                                 + last_season[((h - 1) % SEASON_LENGTH) + 1]

\* C25: in a record_observation call whose observation arrives in a later
\* clock hour than the accumulated ones, the average of the accumulated
\* observations is appended to the hourly history exactly once and the
\* accumulator restarts holding only the new observation, so that every
\* appended entry averages the observations of one single clock hour.
C25_HourlyAverages ==
    [][\A s \in DOMAIN obsHours :
          (/\ fsvc'.hourly_buf[s] # fsvc.hourly_buf[s]
           /\ obsHours[s] # <<>>
           /\ Last(obsHours[s]) < now \div 60)
          => /\ Len(fsvc'.hourly_buf[s]) = 1
             /\ Len(fsvc.hourly_history[s]) < MAX_HOURLY =>
                   Len(fsvc'.hourly_history[s]) = Len(fsvc.hourly_history[s]) + 1
             /\ Last(fsvc'.hourly_history[s])[2]
                   = SumSeq(fsvc.hourly_buf[s]) \div Len(fsvc.hourly_buf[s])]_fcVars

\* the same when the later clock hour is a different hour of the day
C25_WithinOneDay ==
    [][\A s \in DOMAIN obsHours :
          (/\ fsvc'.hourly_buf[s] # fsvc.hourly_buf[s]
           /\ obsHours[s] # <<>>
           /\ Last(obsHours[s]) < now \div 60
           /\ Last(obsHours[s]) % 24 # (now \div 60) % 24)
          => /\ Len(fsvc'.hourly_buf[s]) = 1
             /\ Len(fsvc.hourly_history[s]) < MAX_HOURLY =>
                   Len(fsvc'.hourly_history[s]) = Len(fsvc.hourly_history[s]) + 1
             /\ Last(fsvc'.hourly_history[s])[2]
                   = SumSeq(fsvc.hourly_buf[s]) \div Len(fsvc.hourly_buf[s])]_fcVars

\* C26: each location's hourly history holds at most 72 entries, the most
\* recently appended ones in their order of arrival, and its recent-value
\* buffer holds at most 720 values, the most recently recorded ones.
C26_Capped ==
    /\ DOMAIN fsvc.hourly_history = DOMAIN arrived.hourly
    /\ DOMAIN fsvc.history = DOMAIN arrived.recent
    /\ \A s \in DOMAIN fsvc.hourly_history :
          /\ Len(fsvc.hourly_history[s]) <= 72
          /\ fsvc.hourly_history[s] = LastK(arrived.hourly[s], 72)
    /\ \A s \in DOMAIN fsvc.history :
          /\ Len(fsvc.history[s]) <= 720
          /\ fsvc.history[s] = LastK(arrived.recent[s], 720)

\* C26 witness: after ingestion calls, one location has had more than 72
\* hourly entries appended and another state more than 720 values recorded
C26_Witness ==
    /\ ingests >= 1
    /\ "cam-001" \in DOMAIN arrived.hourly
    /\ \/ /\ Len(arrived.hourly["cam-001"]) > 73
          /\ Len(fsvc.hourly_history["cam-001"]) = 72
       \/ /\ Len(arrived.recent["cam-001"]) > 721
          /\ Len(fsvc.history["cam-001"]) = 720

\* the forecaster state of location s: recent buffer, level, trend, hourly
\* accumulator and hourly history, each absent or present
Entry(d, s) == IF s \in DOMAIN d THEN <<d[s]>> ELSE <<>>
StateOf(fs, s) ==
    [history |-> Entry(fs.history, s), level |-> Entry(fs.level, s),
     trend |-> Entry(fs.trend, s), hourly_buf |-> Entry(fs.hourly_buf, s),
     hourly_history |-> Entry(fs.hourly_history, s)]

\* C27: the forecaster state of a location is changed only by the
\* record_observation and add_reading calls that name it; calls naming
\* another location and every generate_forecast call, one for an unknown id
\* included, leave it unchanged and create no new location entry.
C27_Frame ==
    [][/\ \A s \in ObsIds \cup AskIds :
             (/\ Get(arrived'.recent, s, <<>>) = Get(arrived.recent, s, <<>>)
              /\ Get(arrived'.hourly, s, <<>>) = Get(arrived.hourly, s, <<>>))
             => StateOf(fsvc', s) = StateOf(fsvc, s)
       /\ fcCall' # fcCall => fsvc' = fsvc]_fcVars

\* C27 witness: a location has state, a call naming another location has
\* created that one's, and a forecast for an unknown id has been returned
C27_Witness ==
    /\ StateOf(fsvc, "cam-001").history # <<>>
    /\ Len(fsvc.hourly_history["cam-001"]) > 0
    /\ StateOf(fsvc, "cam-002").history # <<>>
    /\ fcCall.outcome = "returned"
    /\ fcCall.sensor_id = "cam-never-seen"
    /\ Len(fcCall.points) >= 2
    /\ StateOf(fsvc, "cam-never-seen").level = <<>>

(***************************************************************************)
(* The green-route planner (services/routing_service.py).                  *)
(* Coordinates are integers in thousandths of a degree relative to a       *)
(* reference point near 40.75 N; lattice nodes are the multiples of        *)
(* GRID_STEP, so the midpoint of two nodes is integral.  Distances are in  *)
(* decimetres, cached pm25 values in whole ug/m3, interpolated pollution   *)
(* in tenths, costs in decimetres times COST_UNIT.  Paths of equal length  *)
(* tie exactly here and the heap order on the nodes decides between them;  *)
(* the code's floating point decides such ties by its rounding.            *)
(***************************************************************************)
\* bounds of the exploration
MaxIterations == 40   \* stands for _MAX_ITERATIONS = 15000
MaxSensors == 2       \* readings in the planner's cache

GRID_STEP == 2               \* _GRID_STEP = 0.002 degrees
LAT_DM == 1112              \* decimetres per 0.001 degree of latitude
LNG_DM == 842               \* decimetres per 0.001 degree of longitude at 40.75 N
GOAL_THRESHOLD == 3330      \* step * 111.0 * 1.5 km
MIN_DIST_SQUARED == 100     \* max(dist, 0.01 km), squared, in square metres
DEFAULT_POLLUTION == 150    \* 15.0, the default urban background
WEIGHT_SCALE == 2000000000  \* the 1.0 of w = 1.0 / dist ** 2
COST_UNIT == 500             \* the 1.0 of 1.0 + pollution_weight * pollution / 50.0
GREEN_WEIGHT == 2            \* pollution_weight of the green search
SHORT_WEIGHT == 0            \* pollution_weight of the shortest search

VARIABLES
    rtPc,          \* "idle", "green" (first search), "short" (second), "done"
    sensor_cache,  \* RoutingService._sensor_cache
    rtStart,       \* the snapped start of the request in progress
    rtGoal,        \* the snapped goal of the request in progress
    open_set,      \* the heap of _a_star: the <<f, node>> entries, least first
    came_from,     \* _a_star's came_from; <<>> is None
    g_score,       \* _a_star's g_score
    iterations,    \* _a_star's iterations
    searches,      \* what the finished searches of the request returned
    route          \* the GreenRoute returned by the last request, in <<>> or <<r>>

routeVars == <<rtPc, sensor_cache, rtStart, rtGoal, open_set, came_from,
               g_score, iterations, searches, route>>

\* the caller of update_sensors and the list object it passed
VARIABLES
    callers_list,  \* the caller's list, as it is now
    cache_is,      \* the list object _sensor_cache is bound to: the planner's
                   \* "own" or the "callers"
    lastUpdate,    \* the readings given to the most recent update_sensors call
    edits          \* additions to and removals from the caller's list since then

callerVars == <<callers_list, cache_is, lastUpdate, edits>>

MaxEdits == 1      \* edits of the caller's list explored after an update

\* round(x / d) for d > 0, ties to even
RoundDiv(x, d) ==
    LET q == x \div d
        r == x % d
    IN IF 2 * r > d \/ (2 * r = d /\ q % 2 = 1) THEN q + 1 ELSE q

\* _haversine over the planar approximation of the neighbourhood, in decimetres
_haversine(lat1, lng1, lat2, lng2) ==
    LET dlat == LAT_DM * (lat2 - lat1)
        dlng == LNG_DM * (lng2 - lng1)
    IN Isqrt(dlat * dlat + dlng * dlng)

\* _snap_to_grid(value, step) = round(value / step) * step
_snap_to_grid(value, step) == RoundDiv(value, step) * step

\* _interpolate_pollution_at(lat, lng), in tenths
_interpolate_pollution_at(cache, lat, lng) ==
    IF cache = <<>> THEN DEFAULT_POLLUTION
    ELSE LET d2(i) == LET dlat == LAT_DM * (cache[i].lat - lat)
                          dlng == LNG_DM * (cache[i].lng - lng)
                      IN Max((dlat * dlat + dlng * dlng) \div 100, MIN_DIST_SQUARED)
             w_raw == [i \in 1..Len(cache) |-> WEIGHT_SCALE \div d2(i)]
             \* the weights on a common scale that keeps the sums in range
             shrink == Max(1, SumSeq(w_raw) \div 1000000)
             w == [i \in 1..Len(cache) |-> w_raw[i] \div shrink]
             weighted_sum == SumSeq([i \in 1..Len(cache) |-> w[i] * cache[i].pm25])
             weight_total == SumSeq(w)
         IN IF weight_total = 0 THEN DEFAULT_POLLUTION
            ELSE 10 * (weighted_sum \div weight_total)
                 + (10 * (weighted_sum % weight_total)) \div weight_total

\* _get_neighbors(lat, lng, step): the 8 adjacent lattice nodes, in the order
\* of the two nested loops
_get_neighbors(lat, lng, step) ==
    <<<<lat - step, lng - step>>, <<lat - step, lng>>, <<lat - step, lng + step>>,
      <<lat, lng - step>>, <<lat, lng + step>>,
      <<lat + step, lng - step>>, <<lat + step, lng>>, <<lat + step, lng + step>>>>

\* the order of heapq on the (f, (lat, lng)) tuples
HeapLE(a, b) ==
    \/ a[1] < b[1]
    \/ /\ a[1] = b[1]
       /\ \/ a[2][1] < b[2][1]
          \/ a[2][1] = b[2][1] /\ a[2][2] <= b[2][2]

\* heapq.heappush: the entry goes behind the entries that are not greater
HeapPush(heap, e) ==
    LET k == Cardinality({i \in 1..Len(heap) : HeapLE(heap[i], e)})
    IN SubSeq(heap, 1, k) \o <<e>> \o SubSeq(heap, k + 1, Len(heap))

\* the while condition of _a_star without the iteration cap
LoopUncapped(heap, n) == heap # <<>>

\* the while condition of _a_star
LoopContinues(heap, n) == heap # <<>> /\ n < MaxIterations

\* the path reconstruction of _a_star: from the start to node
RECURSIVE PathTo(_, _)
PathTo(cf, node) ==
    IF node = <<>> THEN <<>> ELSE Append(PathTo(cf, cf[node]), node)

\* a reconstruction that starts from the empty list instead of [goal]
PathWithoutGoal(cf, current, goal) == PathTo(cf, current)

\* path = [goal], then current and its ancestors, reversed
ReconstructPath(cf, current, goal) == Append(PathTo(cf, current), goal)

\* edge cost = dist_km * (1.0 + pollution_weight * (pollution / 50.0))
EdgeCost(cache, current, neighbor, pollution_weight) ==
    _haversine(current[1], current[2], neighbor[1], neighbor[2])
    * (COST_UNIT + pollution_weight
                   * _interpolate_pollution_at(cache, neighbor[1], neighbor[2]))

\* the heuristic: straight-line distance to the goal
Heuristic(node, goal) == _haversine(node[1], node[2], goal[1], goal[2]) * COST_UNIT

\* the for loop of _a_star over neighbors[k..]: st holds open_set, g_score, came_from
RECURSIVE Relax(_, _, _, _, _, _, _)
Relax(st, cache, current, goal, pollution_weight, neighbors, k) ==
    IF k > Len(neighbors) THEN st
    ELSE LET neighbor == neighbors[k]
             tentative_g == st.g_score[current]
                            + EdgeCost(cache, current, neighbor, pollution_weight)
             f == tentative_g + Heuristic(neighbor, goal)
             next == IF neighbor \notin DOMAIN st.g_score \/ tentative_g < st.g_score[neighbor]
                     THEN [g_score |-> Put(st.g_score, neighbor, tentative_g),
                           open_set |-> HeapPush(st.open_set, <<f, neighbor>>),
                           came_from |-> Put(st.came_from, neighbor, current)]
                     ELSE st
         IN Relax(next, cache, current, goal, pollution_weight, neighbors, k + 1)

\* _compute_path_exposure(path): <<total distance, total exposure>>, the
\* exposure in decimetres times tenths
_compute_path_exposure(cache, path) ==
    LET seg_dist(i) == _haversine(path[i][1], path[i][2], path[i + 1][1], path[i + 1][2])
        seg_pollution(i) ==
            _interpolate_pollution_at(cache, (path[i][1] + path[i + 1][1]) \div 2,
                                             (path[i][2] + path[i + 1][2]) \div 2)
    IN <<SumSeq([i \in 1..(Len(path) - 1) |-> seg_dist(i)]),
         SumSeq([i \in 1..(Len(path) - 1) |-> seg_pollution(i) * seg_dist(i)])>>

\* round((1.0 - green / short) * 100.0, 1), in tenths of a percent, digit by digit
ReductionTenths(green_exposure, short_exposure) ==
    LET x == short_exposure - green_exposure
        d0 == x \div short_exposure
        r0 == x % short_exposure
        d1 == (10 * r0) \div short_exposure
        r1 == (10 * r0) % short_exposure
        d2 == (10 * r1) \div short_exposure
        r2 == (10 * r1) % short_exposure
        d3 == (10 * r2) \div short_exposure
        r3 == (10 * r2) % short_exposure
        q == 1000 * d0 + 100 * d1 + 10 * d2 + d3
    IN IF 2 * r3 > short_exposure \/ (2 * r3 = short_exposure /\ q % 2 = 1)
       THEN q + 1 ELSE q

\* the reduction without max(0.0, ...)
ReductionUnclamped(green_exposure, short_exposure) ==
    IF short_exposure > 0 THEN ReductionTenths(green_exposure, short_exposure) ELSE 0

\* "reduction_percent": max(0.0, reduction), where reduction is the rounded
\* percentage for short_exposure > 0 and 0.0 otherwise
ReductionPercent(green_exposure, short_exposure) ==
    Max(0, IF short_exposure > 0 THEN ReductionTenths(green_exposure, short_exposure) ELSE 0)

\* the GreenRoute built at the end of find_green_route; exposures in tenths
GreenRoute(cache, green_path, short_path) ==
    LET green == _compute_path_exposure(cache, green_path)
        short == _compute_path_exposure(cache, short_path)
        reduction == ReductionPercent(green[2], short[2])
    IN [path |-> green_path,
        estimated_exposure |-> RoundDiv(green[2], 10000),
        shortest_path_exposure |-> RoundDiv(short[2], 10000),
        green_path_exposure |-> RoundDiv(green[2], 10000),
        reduction_percent |-> reduction,
        shortest_path_distance |-> short[1],
        green_path_distance |-> green[1]]

\* the places and values the environment offers
Sites == <<<<0, 4>>, <<4, 2>>, <<-4, -2>>>>
Pm25Values == {5, 80}
FromPoints == {<<0, 0>>, <<3, -1>>}
ToPoints == {<<0, 1>>, <<3, 0>>, <<0, -4>>, <<-8, -4>>, <<12, 10>>}

\* the members of a set of site numbers in increasing order
Ordered(I) ==
    CHOOSE s \in [1..Cardinality(I) -> I] : \A i, j \in DOMAIN s : i < j => s[i] < s[j]

InitRoute ==
    /\ rtPc = "idle"
    /\ sensor_cache = <<>>
    /\ callers_list = <<>>
    /\ cache_is = "own"
    /\ lastUpdate = <<>>
    /\ edits = 0
    /\ rtStart = <<0, 0>>
    /\ rtGoal = <<0, 0>>
    /\ open_set = <<>>
    /\ came_from = EmptyDict
    /\ g_score = EmptyDict
    /\ iterations = 0
    /\ searches = <<>>
    /\ route = <<>>

\* the state of _a_star before its loop
BeginSearch(start) ==
    /\ open_set' = <<<<0, start>>>>
    /\ came_from' = Put(EmptyDict, start, <<>>)
    /\ g_score' = Put(EmptyDict, start, 0)
    /\ iterations' = 0

\* the cache bound to the list it was given
SameList(readings) == [object |-> "callers", items |-> readings]

\* list(sensors): a new list object with the same items
ListOf(readings) == [object |-> "own", items |-> readings]

\* update_sensors(sensors)
UpdateSensors ==
    /\ rtPc \in {"idle", "done"}
    /\ \E I \in SUBSET (1..Len(Sites)) :
          /\ Cardinality(I) <= MaxSensors
          /\ \E v \in [I -> Pm25Values] :
                LET given == [k \in 1..Cardinality(I) |->
                                  [lat |-> Sites[Ordered(I)[k]][1],
                                   lng |-> Sites[Ordered(I)[k]][2],
                                   pm25 |-> v[Ordered(I)[k]]]]
                IN /\ sensor_cache' = ListOf(given).items
                   /\ cache_is' = ListOf(given).object
                   /\ callers_list' = given
                   /\ lastUpdate' = given
    /\ edits' = 0
    /\ rtPc' = "idle"
    /\ route' = <<>>
    /\ searches' = <<>>
    /\ UNCHANGED <<rtStart, rtGoal, open_set, came_from, g_score, iterations>>

\* find_green_route(from_lat, from_lng, to_lat, to_lng) up to its first search
FindGreenRoute ==
    /\ rtPc \in {"idle", "done"}
    /\ \E from \in FromPoints, to \in ToPoints :
          /\ rtStart' = <<_snap_to_grid(from[1], GRID_STEP), _snap_to_grid(from[2], GRID_STEP)>>
          /\ rtGoal' = <<_snap_to_grid(to[1], GRID_STEP), _snap_to_grid(to[2], GRID_STEP)>>
          /\ BeginSearch(<<_snap_to_grid(from[1], GRID_STEP), _snap_to_grid(from[2], GRID_STEP)>>)
    /\ rtPc' = "green"
    /\ route' = <<>>
    /\ searches' = <<>>
    /\ UNCHANGED sensor_cache

\* _a_star returns path: the second search starts, or the route is built
SearchReturns(path, n) ==
    /\ searches' = Append(searches, [path |-> path, iterations |-> n])
    /\ IF rtPc = "green"
       THEN /\ rtPc' = "short"
            /\ BeginSearch(rtStart)
            /\ route' = route
       ELSE /\ rtPc' = "done"
            /\ route' = <<GreenRoute(sensor_cache, searches[1].path, path)>>
            /\ open_set' = <<>>
            /\ came_from' = EmptyDict
            /\ g_score' = EmptyDict
            /\ iterations' = n
    /\ UNCHANGED <<sensor_cache, rtStart, rtGoal>>

\* one iteration of the while loop of _a_star
AStarStep ==
    /\ rtPc \in {"green", "short"}
    /\ LoopContinues(open_set, iterations)
    /\ LET current == Head(open_set)[2]
           dist_to_goal == _haversine(current[1], current[2], rtGoal[1], rtGoal[2])
       IN \/ /\ dist_to_goal < GOAL_THRESHOLD
             /\ SearchReturns(ReconstructPath(came_from, current, rtGoal), iterations + 1)
          \/ /\ dist_to_goal >= GOAL_THRESHOLD
             /\ LET st == Relax([g_score |-> g_score, open_set |-> Tail(open_set),
                                 came_from |-> came_from],
                                sensor_cache, current, rtGoal,
                                IF rtPc = "green" THEN GREEN_WEIGHT ELSE SHORT_WEIGHT,
                                _get_neighbors(current[1], current[2], GRID_STEP), 1)
                IN /\ g_score' = st.g_score
                   /\ came_from' = st.came_from
                   /\ open_set' = st.open_set
             /\ iterations' = iterations + 1
             /\ UNCHANGED <<rtPc, sensor_cache, rtStart, rtGoal, searches, route>>

\* the loop of _a_star ends without a path: the straight line
AStarFallback ==
    /\ rtPc \in {"green", "short"}
    /\ ~LoopContinues(open_set, iterations)
    /\ SearchReturns(<<rtStart, rtGoal>>, iterations)

\* the caller's list with one reading added or one removed
ExtraReading == [lat |-> 2, lng |-> 2, pm25 |-> 80]
Without(list, i) == [k \in 1..(Len(list) - 1) |-> IF k < i THEN list[k] ELSE list[k + 1]]
Edited(list) == {Append(list, ExtraReading)} \cup {Without(list, i) : i \in 1..Len(list)}

\* the caller appends to or removes from the list it passed; a cache bound to
\* the same list object changes with it
CallerEdits ==
    /\ rtPc \in {"idle", "done"}
    /\ edits < MaxEdits
    /\ \E new \in Edited(callers_list) :
          /\ callers_list' = new
          /\ sensor_cache' = IF cache_is = "callers" THEN new ELSE sensor_cache
    /\ edits' = edits + 1
    /\ UNCHANGED <<cache_is, lastUpdate, rtPc, rtStart, rtGoal, open_set, came_from,
                   g_score, iterations, searches, route>>

NextRoute ==
    \/ UpdateSensors
    \/ CallerEdits
    \/ (FindGreenRoute \/ AStarStep \/ AStarFallback) /\ UNCHANGED callerVars

\* the cached readings are not all equal
NonUniform(cache) == \E i, j \in 1..Len(cache) : cache[i].pm25 # cache[j].pm25

\* C3: whenever a route has been returned over a non-uniform cache, its
\* green_path_exposure is at most its shortest_path_exposure.
C3_GreenNoWorse ==
    (route # <<>> /\ NonUniform(sensor_cache))
        => route[1].green_path_exposure <= route[1].shortest_path_exposure

\* a path _a_star returns on accepting a popped node: it leads from start over
\* adjacent lattice nodes to a node nearer to the goal than 1.5 steps, then to the goal
AcceptedPath(path, start, goal) ==
    /\ Len(path) >= 2
    /\ path[1] = start
    /\ path[Len(path)] = goal
    /\ _haversine(path[Len(path) - 1][1], path[Len(path) - 1][2], goal[1], goal[2])
           < GOAL_THRESHOLD
    /\ \A i \in 1..(Len(path) - 2) :
           \E k \in 1..8 : path[i + 1] = _get_neighbors(path[i][1], path[i][2], GRID_STEP)[k]

\* C4: a search never pops more than the iteration cap; every finished search
\* returned either an accepted path or, with the cap reached or the frontier
\* empty, exactly the two-point path from start to goal.
C4_SearchBounded ==
    /\ iterations <= MaxIterations
    /\ \A k \in 1..Len(searches) :
          /\ searches[k].iterations <= MaxIterations
          /\ \/ AcceptedPath(searches[k].path, rtStart, rtGoal)
             \/ /\ searches[k].path = <<rtStart, rtGoal>>
                /\ searches[k].iterations = MaxIterations

\* C4 witness: in one request the green search ran into the cap and returned
\* the straight line while the shortest search accepted a node near the goal
C4_Witness ==
    /\ Len(searches) = 2
    /\ searches[1].path = <<rtStart, rtGoal>>
    /\ searches[1].iterations = MaxIterations
    /\ ~AcceptedPath(searches[1].path, rtStart, rtGoal)
    /\ Len(searches[2].path) > 2
    /\ AcceptedPath(searches[2].path, rtStart, rtGoal)

\* a point of the lattice: both coordinates are multiples of the step
OnLattice(p) == p[1] % GRID_STEP = 0 /\ p[2] % GRID_STEP = 0

\* C20: the path of a returned route has at least two points, its first point
\* is the start snapped to the lattice and its last point is the goal snapped
\* to the lattice, whether the green search accepted a node, fell back to the
\* straight line, or start and goal snapped to one point.
C20_PathEndpoints ==
    route # <<>> =>
        /\ Len(route[1].path) >= 2
        /\ route[1].path[1] = rtStart
        /\ route[1].path[Len(route[1].path)] = rtGoal
        /\ OnLattice(rtStart) /\ OnLattice(rtGoal)
        /\ route[1].path = searches[1].path

\* C20 witness: start and goal snapped to one lattice point, the green search
\* accepted the start at its first pop, and the route's path is that point twice
C20_Witness ==
    /\ route # <<>>
    /\ rtStart = rtGoal
    /\ searches[1].iterations = 1
    /\ route[1].path = <<rtStart, rtGoal>>

\* the exposures of the two paths of the returned route, unrounded
GreenExposure == _compute_path_exposure(sensor_cache, searches[1].path)[2]
ShortExposure == _compute_path_exposure(sensor_cache, searches[2].path)[2]

\* C21: the reduction_percent of a returned route is never negative; it is 0
\* when the shortest path's exposure is 0 or the green path's exposure is not
\* lower, and otherwise (1 - green / shortest) * 100 rounded to one decimal.
C21_ReductionNotNegative ==
    route # <<>> =>
        /\ route[1].reduction_percent >= 0
        /\ (ShortExposure = 0 \/ GreenExposure >= ShortExposure)
              => route[1].reduction_percent = 0
        /\ (ShortExposure > 0 /\ GreenExposure < ShortExposure)
              => route[1].reduction_percent = ReductionTenths(GreenExposure, ShortExposure)

\* C21 witness: a route whose green path has the higher exposure was returned
\* with reduction 0
C21_Witness ==
    /\ route # <<>>
    /\ ShortExposure > 0
    /\ GreenExposure > ShortExposure
    /\ route[1].reduction_percent = 0

\* C28: the planner's cache is a snapshot of the list given to the most
\* recent update_sensors call: later additions to and removals from the
\* caller's list do not change it, and a returned route is computed from the
\* readings of that call only.
C28_Snapshot ==
    /\ sensor_cache = lastUpdate
    /\ route # <<>> =>
          route[1] = GreenRoute(lastUpdate, searches[1].path, searches[2].path)

\* C28 witness: a route returned after the caller added a reading to the
\* list it had passed
C28_Witness ==
    /\ route # <<>>
    /\ edits > 0
    /\ Len(callers_list) > Len(lastUpdate)
    /\ Len(lastUpdate) > 0

(***************************************************************************)
(* The spatial interpolator (services/mesh_service.py).                    *)
(* Coordinates are integers in thousandths of a degree relative to the     *)
(* south-west corner of the default bounds, distances are in metres,       *)
(* readings in whole ug/m3, estimates in hundredths and grid values in     *)
(* tenths.  Variogram values and the entries of the kriging system are in  *)
(* quarters (VARIOGRAM_ONE stands for 1.0).  The elimination runs on       *)
(* integers: at every step each row holds the code's row times one common  *)
(* denominator, the previous pivot, so the comparisons between the         *)
(* entries of a column are the code's, and an entry of the code is below   *)
(* 1e-12 in magnitude exactly when the integer is 0.                       *)
(***************************************************************************)
DEFAULT_RESOLUTION == 30        \* _DEFAULT_RESOLUTION
MIN_SENSORS_FOR_KRIGING == 4    \* _MIN_SENSORS_FOR_KRIGING
MIN_DISTANCE == 50              \* _MIN_DISTANCE_KM = 0.05
DEFAULT_ESTIMATE == 1000        \* the 10.0 returned without known points
N_LAGS == 10                    \* n_lags
MIN_LAG_WIDTH == 10             \* minimum 10m bin width
MIN_RANGE == 100                \* minimum 100m range
VARIOGRAM_ONE == 4              \* 1.0 on the scale of the variogram values
MESH_LAT_M == 111               \* metres per 0.001 degree of latitude
MESH_LNG_M == 84                \* metres per 0.001 degree of longitude at 40.75 N
IDW_WEIGHT_SCALE == 2000000000  \* the 1.0 of w = 1.0 / (dist ** power)

\* _DEFAULT_BOUNDS
DEFAULT_BOUNDS == [north |-> 120, south |-> 0, east |-> 240, west |-> 0]

VARIABLES
    variogram_params,  \* MeshService._variogram_params, in <<>> (None) or <<p>>
    meshCall,          \* the arguments of the last generate_grid call, in <<>> or <<c>>
    grid,              \* the GridData it returned, in <<>> or <<g>>
    cells              \* for each cell of that grid, how it was computed

meshVars == <<variogram_params, meshCall, grid, cells>>

\* _haversine_meters over the planar approximation of the neighbourhood
_haversine_meters(lat1, lng1, lat2, lng2) ==
    LET dlat == MESH_LAT_M * (lat2 - lat1)
        dlng == MESH_LNG_M * (lng2 - lng1)
    IN Isqrt(dlat * dlat + dlng * dlng)

\* 100 * dist ** 2.5 for a distance in units of MIN_DISTANCE
PowerOfDistance(d) == d * d * Isqrt(10000 * d)

\* num / den in hundredths, rounded down
Hundredths(num, den) == 100 * (num \div den) + (100 * (num % den)) \div den

\* weighted_sum / weight_total for the weights w, in hundredths
WeightedMean(w, values) ==
    IF SumSeq(w) = 0 THEN DEFAULT_ESTIMATE
    ELSE Hundredths(SumSeq([i \in DOMAIN w |-> w[i] * values[i]]), SumSeq(w))

\* the weights on a common scale that keeps the sums in range
Scaled(w_raw, shrink) == [i \in DOMAIN w_raw |-> w_raw[i] \div shrink]
ScaledWeights(w_raw) == Scaled(w_raw, Max(1, SumSeq(w_raw) \div 1000000))

\* the loop of the IDW estimators over the known points: lats, lngs and
\* values of the known points, the target, the weights 1.0 / (dist ** power)
IdwMean(lats, lngs, values, target_lat, target_lng) ==
    WeightedMean(
        ScaledWeights([i \in 1..Len(values) |->
            IDW_WEIGHT_SCALE \div
                PowerOfDistance(Max(_haversine_meters(target_lat, target_lng, lats[i], lngs[i]),
                                    MIN_DISTANCE) \div MIN_DISTANCE)]),
        values)

\* _idw_single(known_points, known_values, target_point)
_idw_single(known_points, known_values, target_point) ==
    IF known_points = <<>> THEN DEFAULT_ESTIMATE
    ELSE IdwMean([i \in 1..Len(known_points) |-> known_points[i][1]],
                 [i \in 1..Len(known_points) |-> known_points[i][2]],
                 known_values, target_point[1], target_point[2])

\* _idw_interpolate(target_lat, target_lng, sensors)
_idw_interpolate(target_lat, target_lng, sensor_list) ==
    IF sensor_list = <<>> THEN DEFAULT_ESTIMATE
    ELSE IdwMean([i \in 1..Len(sensor_list) |-> sensor_list[i].lat],
                 [i \in 1..Len(sensor_list) |-> sensor_list[i].lng],
                 [i \in 1..Len(sensor_list) |-> sensor_list[i].pm25],
                 target_lat, target_lng)

\* the pairs (i, j), i < j, in the order of the two nested loops
PairsOf(n) ==
    LET count == (n * (n - 1)) \div 2
        first(i) == ((i - 1) * (2 * n - i)) \div 2   \* pairs before those of i
        rowOf(k) == CHOOSE i \in 1..(n - 1) : first(i) < k /\ k <= first(i) + (n - i)
    IN [k \in 1..count |-> <<rowOf(k), rowOf(k) + (k - first(rowOf(k)))>>]

\* the largest and the smallest member
MaxOf(s) == CHOOSE x \in {s[i] : i \in DOMAIN s} : \A i \in DOMAIN s : s[i] <= x
Lowest(S) == CHOOSE l \in S : \A o \in S : l <= o

\* distances and sq_diffs over the pairs
DistancesOver(pairs, locations) ==
    [k \in DOMAIN pairs |->
        _haversine_meters(locations[pairs[k][1]][1], locations[pairs[k][1]][2],
                          locations[pairs[k][2]][1], locations[pairs[k][2]][2])]
SqDiffsOver(pairs, values) ==
    [k \in DOMAIN pairs |->
        VARIOGRAM_ONE * (values[pairs[k][1]] - values[pairs[k][2]])
                      * (values[pairs[k][1]] - values[pairs[k][2]])]

\* sum((v - sum(values) / n) ** 2 for v in values) / n
DataVariance(values) ==
    (VARIOGRAM_ONE * (Len(values) * SumSeq([i \in DOMAIN values |-> values[i] * values[i]])
                      - SumSeq(values) * SumSeq(values)))
        \div (Len(values) * Len(values))

\* n_lags * lag_width
TenWidths(max_dist) ==
    Max(IF max_dist > 0 THEN max_dist ELSE N_LAGS * 100, N_LAGS * MIN_LAG_WIDTH)

\* the pairs of lag lag_idx (from 0): h_low <= distances[k] < h_high
LagBucket(distances, ten_widths, lag_idx) ==
    {k \in DOMAIN distances :
        /\ lag_idx * ten_widths <= N_LAGS * distances[k]
        /\ N_LAGS * distances[k] < (lag_idx + 1) * ten_widths}

\* gamma_h of a bucket: sum(bin_sq_diffs) / (2.0 * len(bin_sq_diffs)); -1
\* stands for a lag without pairs, which the code skips
BucketGamma(bucket, sq_diffs) ==
    IF bucket = {} THEN -1
    ELSE SumSeq([k \in DOMAIN sq_diffs |-> IF k \in bucket THEN sq_diffs[k] ELSE 0])
            \div (2 * Cardinality(bucket))

\* h_center of lag l (from 1)
LagCentre(l, ten_widths) == ((2 * l - 1) * ten_widths) \div (2 * N_LAGS)

\* the fit of the spherical model to the experimental values gammas
FitSpherical(gammas, max_dist, ten_widths, data_variance) ==
    LET filled == {l \in 1..N_LAGS : gammas[l] >= 0}
        sill == Max(MaxOf(gammas), Max(data_variance, VARIOGRAM_ONE))
        reaching == {l \in filled : 100 * gammas[l] >= 95 * sill}
    IN IF filled = {}
       THEN [nugget |-> 0, sill |-> Max(data_variance, VARIOGRAM_ONE),
             range_param |-> IF max_dist > 0 THEN max_dist \div 2 ELSE 1000]
       ELSE [nugget |-> Max(0, gammas[Lowest(filled)] \div 2),
             sill |-> sill,
             range_param |->
                 Max(IF reaching = {} THEN max_dist \div 2
                     ELSE LagCentre(Lowest(reaching), ten_widths),
                     MIN_RANGE)]

\* the experimental semivariogram over the lags, then the fit
FitLags(distances, sq_diffs, max_dist, data_variance) ==
    FitSpherical([l \in 1..N_LAGS |->
                     BucketGamma(LagBucket(distances, TenWidths(max_dist), l - 1), sq_diffs)],
                 max_dist, TenWidths(max_dist), data_variance)

\* _calculate_semivariogram(locations, values): nugget and sill in quarters,
\* range_param in metres
_calculate_semivariogram(locations, values) ==
    IF Len(locations) < 2
    THEN [nugget |-> 0, sill |-> VARIOGRAM_ONE, range_param |-> 1000]
    ELSE FitLags(DistancesOver(PairsOf(Len(locations)), locations),
                 SqDiffsOver(PairsOf(Len(locations)), values),
                 MaxOf(DistancesOver(PairsOf(Len(locations)), locations)),
                 DataVariance(values))

\* _spherical_variogram(h, nugget, sill, range_param), in quarters
_spherical_variogram(h, nugget, sill, range_param) ==
    IF h <= 0 THEN 0
    ELSE LET a == Max(range_param, 1)
             hr == (1000 * h) \div a      \* h / a in thousandths
         IN IF h <= a
            THEN nugget + ((sill - nugget) * ((3 * hr) \div 2 - (hr * hr * hr) \div 2000000))
                          \div 1000
            ELSE sill

\* the augmented matrix [A | b] that _ordinary_kriging builds, in quarters
KrigingMatrix(known_points, target_point, vparams) ==
    LET n == Len(known_points)
        size == n + 1
        gammaOf(lat1, lng1, lat2, lng2) ==
            _spherical_variogram(_haversine_meters(lat1, lng1, lat2, lng2),
                                 vparams.nugget, vparams.sill, vparams.range_param)
    IN [i \in 1..size |-> [j \in 1..(size + 1) |->
           IF i <= n /\ j <= n
           THEN IF i = j THEN 0
                ELSE gammaOf(known_points[i][1], known_points[i][2],
                             known_points[j][1], known_points[j][2])
           ELSE IF i <= n /\ j = size THEN VARIOGRAM_ONE
           ELSE IF i = size /\ j <= n THEN VARIOGRAM_ONE
           ELSE IF i = size /\ j = size THEN 0
           ELSE IF i <= n
           THEN gammaOf(known_points[i][1], known_points[i][2],
                        target_point[1], target_point[2])
           ELSE VARIOGRAM_ONE]]

\* the row of the pivot of column col: the first row from col on whose entry
\* in that column has the largest magnitude
PivotRow(m, n, col) ==
    CHOOSE r \in col..n :
        /\ \A o \in col..n : Abs(m[o][col]) <= Abs(m[r][col])
        /\ \A o \in col..(r - 1) : Abs(m[o][col]) < Abs(m[r][col])

\* m[col], m[max_row] = m[max_row], m[col]
SwapRows(m, n, col, max_row) ==
    [r \in 1..n |-> IF r = col THEN m[max_row]
                    ELSE IF r = max_row THEN m[col]
                    ELSE m[r]]

\* the elimination of column col from the other rows; prev is the previous
\* pivot, the common denominator of the rows
EliminateColumn(m, n, col, prev) ==
    [r \in 1..n |-> [j \in 1..(n + 1) |->
        IF r = col THEN m[col][j]
        ELSE (m[col][col] * m[r][j] - m[r][col] * m[col][j]) \div prev]]

\* the loop of _gauss_jordan from column col on (m = m has the entries of m
\* computed once, before the loop body reads them)
RECURSIVE Eliminate(_, _, _, _)
EliminateFrom(m, n, col, prev, max_row) ==
    IF m[max_row][col] = 0
    THEN [singular |-> TRUE, m |-> m, pivot |-> prev]
    ELSE Eliminate(EliminateColumn(SwapRows(m, n, col, max_row), n, col, prev),
                   n, col + 1, m[max_row][col])
Eliminate(m, n, col, prev) ==
    IF m = m /\ col > n THEN [singular |-> FALSE, m |-> m, pivot |-> prev]
    ELSE EliminateFrom(m, n, col, prev, PivotRow(m, n, col))

\* what _gauss_jordan returns after the elimination e: the solution as
\* numerators over one denominator, in <<>> (None) or <<s>>, and the caller's
\* matrix as the call leaves it
Solved(e, size, matrix_after) ==
    [solution |-> IF e.singular THEN <<>>
                  ELSE <<[numerators |-> [i \in 1..size |-> e.m[i][size + 1]],
                          denominator |-> e.pivot]>>,
     matrix |-> matrix_after]

\* _gauss_jordan eliminating in the caller's matrix itself
_gauss_jordan_in_place(matrix, size) ==
    Solved(Eliminate(matrix, size, 1, 1), size, Eliminate(matrix, size, 1, 1).m)

\* _gauss_jordan(matrix, size): the elimination runs on a copy
_gauss_jordan(matrix, size) == Solved(Eliminate(matrix, size, 1, 1), size, matrix)

\* sum(solution[i] * known_values[i]), clamped at 0, in hundredths
WeightedSum(s, known_values) ==
    IF s.denominator < 0
    THEN Max(0, Hundredths(-SumSeq([i \in DOMAIN known_values |->
                                       s.numerators[i] * known_values[i]]), -s.denominator))
    ELSE Max(0, Hundredths(SumSeq([i \in DOMAIN known_values |->
                                      s.numerators[i] * known_values[i]]), s.denominator))

\* _ordinary_kriging after the solver returned
KrigingEstimate(solved, matrix, known_points, known_values, target_point) ==
    IF solved.solution = <<>>
    THEN [estimate |-> _idw_single(known_points, known_values, target_point),
          singular |-> TRUE,
          matrix_kept |-> solved.matrix = matrix]
    ELSE [estimate |-> WeightedSum(solved.solution[1], known_values),
          singular |-> FALSE,
          matrix_kept |-> solved.matrix = matrix]
SolveKriging(matrix, known_points, known_values, target_point) ==
    KrigingEstimate(_gauss_jordan(matrix, Len(known_points) + 1), matrix,
                    known_points, known_values, target_point)

\* _ordinary_kriging(known_points, known_values, target_point, variogram_params):
\* the estimate in hundredths, whether the system was singular, and whether
\* the matrix was the same after the solver returned
_ordinary_kriging(known_points, known_values, target_point, vparams) ==
    SolveKriging(KrigingMatrix(known_points, target_point, vparams),
                 known_points, known_values, target_point)

\* use_kriging = len(sensors) >= 3
UseKrigingFromThree(n) == n >= 3

\* use_kriging = len(sensors) >= _MIN_SENSORS_FOR_KRIGING
UseKriging(n) == n >= MIN_SENSORS_FOR_KRIGING

\* x or y for an optional argument x in <<>> (None) or <<v>>: a None, a zero
\* and an empty dict are falsy
OrElse(x, falsy, y) == IF x = <<>> \/ x[1] = falsy THEN y ELSE x[1]

\* the centre of cell (row, col), both from 0
CellCentre(b, grid_res, row, col) ==
    <<b.north - ((2 * row + 1) * (b.north - b.south)) \div (2 * grid_res),
      b.west + ((2 * col + 1) * (b.east - b.west)) \div (2 * grid_res)>>

\* round(max(0.0, pm25), 1), in tenths
Tenths(pm25) == RoundDiv(Max(0, pm25), 10)

\* a cell of the grid: the value and how it was computed
KrigedCell(k) ==
    [pm25 |-> Tenths(k.estimate),
     via |-> IF k.singular THEN "kriging, singular" ELSE "kriging",
     matrix_kept |-> k.matrix_kept]
IdwCell(pm25) == [pm25 |-> Tenths(pm25), via |-> "idw", matrix_kept |-> TRUE]

\* the body of the two loops of generate_grid for one cell
GridCell(sensor_list, locations, values, use_kriging, vparams, centre) ==
    IF use_kriging /\ vparams # <<>>
    THEN KrigedCell(_ordinary_kriging(locations, values, centre, vparams[1]))
    ELSE IdwCell(_idw_interpolate(centre[1], centre[2], sensor_list))

\* locations and values of generate_grid
LocationsOf(sensor_list) ==
    [i \in 1..Len(sensor_list) |-> <<sensor_list[i].lat, sensor_list[i].lng>>]
ValuesOf(sensor_list) == [i \in 1..Len(sensor_list) |-> sensor_list[i].pm25]

\* generate_grid from the choice of the strategy on: the GridData with the
\* record of each cell, and the variogram the service holds afterwards
GridOver(sensor_list, grid_bounds, grid_res, use_kriging, vparams, old_params) ==
    [bounds |-> grid_bounds,
     resolution |-> grid_res,
     cells |-> [row \in 1..grid_res |-> [col \in 1..grid_res |->
                   GridCell(sensor_list, LocationsOf(sensor_list), ValuesOf(sensor_list),
                            use_kriging, vparams,
                            CellCentre(grid_bounds, grid_res, row - 1, col - 1))]],
     variogram_params |-> IF use_kriging THEN vparams ELSE old_params]

\* generate_grid(sensors, bounds, resolution) on a service with the default
\* bounds and resolution
generate_grid(sensor_list, bounds_arg, resolution_arg, old_params) ==
    GridOver(sensor_list,
             OrElse(bounds_arg, EmptyDict, DEFAULT_BOUNDS),
             OrElse(resolution_arg, 0, DEFAULT_RESOLUTION),
             UseKriging(Len(sensor_list)),
             IF UseKriging(Len(sensor_list))
             THEN <<_calculate_semivariogram(LocationsOf(sensor_list), ValuesOf(sensor_list))>>
             ELSE <<>>,
             old_params)

\* the readings the environment offers: places, two of them the same, and
\* values for them
Places == <<<<30, 60>>, <<90, 180>>, <<60, 20>>, <<100, 100>>, <<30, 60>>, <<10, 220>>>>
PlaceLists == {<<>>, <<1>>, <<1, 2>>, <<1, 2, 3>>, <<1, 2, 3, 4>>, <<1, 2, 3, 5>>,
               <<2, 3, 4, 6>>}
ValueLists == {<<11, 10, 12, 10>>, <<11, 12, 10, 12>>}
SensorLists ==
    {[i \in 1..Len(pl) |-> [lat |-> Places[pl[i]][1], lng |-> Places[pl[i]][2],
                            pm25 |-> vl[i]]] : pl \in PlaceLists, vl \in ValueLists}
CustomBounds == [north |-> 96, south |-> 60, east |-> 84, west |-> 48]
BoundsArgs == {<<>>, <<CustomBounds>>}
ResolutionArgs == {<<-1>>, <<1>>, <<2>>}
\* the calls of the environment; those that build the grid at the default
\* resolution come without readings
GridCalls ==
    {[sensors |-> s, bounds |-> b, resolution |-> r] :
        s \in SensorLists, b \in BoundsArgs, r \in ResolutionArgs}
    \cup {[sensors |-> <<>>, bounds |-> <<>>, resolution |-> r] : r \in {<<>>, <<0>>}}

InitMesh ==
    /\ variogram_params = <<>>
    /\ meshCall = <<>>
    /\ grid = <<>>
    /\ cells = <<>>

\* the return of generate_grid: the GridData and what the service keeps
GridReturned(g) ==
    /\ cells' = g.cells
    /\ grid' = <<[bounds |-> g.bounds,
                  resolution |-> g.resolution,
                  values |-> [row \in DOMAIN cells' |-> [col \in DOMAIN cells'[row] |->
                                 cells'[row][col].pm25]]]>>
    /\ variogram_params' = g.variogram_params

\* generate_grid(sensors, bounds, resolution)
GenerateGrid ==
    \E call \in GridCalls :
        /\ meshCall' = <<call>>
        /\ GridReturned(generate_grid(call.sensors, call.bounds, call.resolution,
                                      variogram_params))

(***************************************************************************)
(* Claims about the spatial interpolator.                                   *)
(***************************************************************************)
\* the known points and values of the last call, and the centre of a cell
CallLocations ==
    [i \in 1..Len(meshCall[1].sensors) |->
        <<meshCall[1].sensors[i].lat, meshCall[1].sensors[i].lng>>]
CallValues == [i \in 1..Len(meshCall[1].sensors) |-> meshCall[1].sensors[i].pm25]
CentreOf(row, col) ==
    CellCentre(grid[1].bounds, grid[1].resolution, row - 1, col - 1)

\* C7: the strategy follows from the number of known points alone: with fewer
\* than 4 every cell is the direct inverse-distance-weighted estimate rounded
\* to one decimal (10.0 without any point), with 4 or more every cell comes
\* from the kriging path.
C7_StrategyByCount ==
    grid # <<>> =>
        \A row \in 1..Len(grid[1].values) : \A col \in 1..Len(grid[1].values[row]) :
            LET n == Len(meshCall[1].sensors)
                direct == _idw_single(CallLocations, CallValues, CentreOf(row, col))
            IN /\ n < 4 => /\ grid[1].values[row][col] = RoundDiv(direct, 10)
                           /\ cells[row][col].via = "idw"
               /\ n = 0 => grid[1].values[row][col] = 100
               /\ n >= 4 => /\ cells[row][col].via \in {"kriging", "kriging, singular"}
                            /\ grid[1].values[row][col]
                               = RoundDiv(_ordinary_kriging(CallLocations, CallValues,
                                              CentreOf(row, col), variogram_params[1]).estimate, 10)

\* C7 witness: a grid over three known points has been returned whose cells
\* do not all hold the same value
C7_Witness ==
    /\ grid # <<>>
    /\ Len(meshCall[1].sensors) = 3
    /\ grid[1].resolution = 2
    /\ \E r1, c1, r2, c2 \in 1..2 : grid[1].values[r1][c1] # grid[1].values[r2][c2]
    /\ \A row, col \in 1..2 : cells[row][col].via = "idw"

\* two known points of the last call share one location
CoLocated ==
    \E i, j \in 1..Len(meshCall[1].sensors) :
        i < j /\ CallLocations[i] = CallLocations[j]

\* C8: a cell whose kriging system is singular holds the inverse-distance-
\* weighted estimate over the known points, the solver left the matrix it was
\* given unchanged, and the system is singular when two known points share a
\* location.
C8_SingularFallsBack ==
    (grid # <<>> /\ Len(meshCall[1].sensors) >= 4) =>
        \A row \in 1..Len(grid[1].values) : \A col \in 1..Len(grid[1].values[row]) :
            LET matrix == KrigingMatrix(CallLocations, CentreOf(row, col), variogram_params[1])
                singular == _gauss_jordan(matrix, Len(CallLocations) + 1).solution = <<>>
            IN /\ cells[row][col].matrix_kept
               /\ CoLocated => singular
               /\ singular =>
                    /\ cells[row][col].via = "kriging, singular"
                    /\ grid[1].values[row][col]
                       = RoundDiv(_idw_single(CallLocations, CallValues, CentreOf(row, col)), 10)

\* C8 witness: a grid over four known points, two of them at one location with
\* different readings, whose cells all fell back and are not all equal
C8_Witness ==
    /\ grid # <<>>
    /\ Len(meshCall[1].sensors) = 4
    /\ CoLocated
    /\ grid[1].resolution = 2
    /\ \A row, col \in 1..2 : cells[row][col].via = "kriging, singular"
    /\ grid[1].values[1][1] # grid[1].values[2][2]

\* C9: the returned grid reports the resolution that was passed and the bounds
\* that were passed, and its values are R rows of R entries, none negative.
C9_ShapeAsRequested ==
    (grid # <<>> /\ meshCall[1].resolution # <<>>) =>
        LET R == meshCall[1].resolution[1]
        IN /\ grid[1].resolution = R
           /\ meshCall[1].bounds # <<>> => grid[1].bounds = meshCall[1].bounds[1]
           /\ Len(grid[1].values) = R
           /\ \A row \in 1..Len(grid[1].values) :
                 /\ Len(grid[1].values[row]) = R
                 /\ \A col \in 1..R : grid[1].values[row][col] >= 0

\* the pairwise distances of the last call and the lags that count pair k
CallDistances == DistancesOver(PairsOf(Len(CallLocations)), CallLocations)
LagsOf(k) ==
    {lag_idx \in 0..(N_LAGS - 1) :
        k \in LagBucket(CallDistances, TenWidths(MaxOf(CallDistances)), lag_idx)}

\* C30: when the empirical semivariogram is computed, every pair of known
\* points is counted in exactly one lag bucket, the pair separated by the
\* largest distance included.
C30_EveryPairCounted ==
    (meshCall # <<>> /\ Len(meshCall[1].sensors) >= MIN_SENSORS_FOR_KRIGING) =>
        \A k \in DOMAIN CallDistances : Cardinality(LagsOf(k)) = 1

\* what the code does: no pair is counted twice, and the pairs left out are
\* those at the largest distance, when the ten lags end exactly there
C30_AllButFarthest ==
    (meshCall # <<>> /\ Len(meshCall[1].sensors) >= MIN_SENSORS_FOR_KRIGING) =>
        \A k \in DOMAIN CallDistances :
            /\ Cardinality(LagsOf(k)) <= 1
            /\ LagsOf(k) = {} <=>
                  (/\ CallDistances[k] = MaxOf(CallDistances)
                   /\ MaxOf(CallDistances) >= N_LAGS * MIN_LAG_WIDTH)

(***************************************************************************)
(* The REST readers of one location (api/rest_routes.py).  A location id   *)
(* of a request is a camera of CAMERAS or an id no camera has; a handler   *)
(* runs on the event loop, so only while simulation_loop is suspended.     *)
(* The rows a history request reads from the database are not modelled:    *)
(* its body names the id and the hours they were asked for.                *)
(***************************************************************************)
\* hours: int = Query(default=24, ge=1, le=168)
HISTORY_HOURS_DEFAULT == 24
HISTORY_HOURS_MIN == 1
HISTORY_HOURS_MAX == 168
\* generate_forecast(sensor_id, hours_ahead=6, interval_minutes=30)
REST_FORECAST_HOURS == 6
REST_FORECAST_INTERVAL == 30
\* HTTP status codes
HTTP_OK == 200
HTTP_NOT_FOUND == 404
HTTP_UNPROCESSABLE == 422
HTTP_UNAVAILABLE == 503

VARIABLES
    restResponse   \* the last request for one location and its response

restVars == <<restResponse>>

\* the ids and the hours the requests are drawn from
UnknownCamera == NumCams + 1
RequestIds == Cameras \cup {UnknownCamera}
HoursArgs == {<<>>, <<0>>, <<169>>}

NoBody == [kind |-> "none"]
NoRequest == [endpoint |-> "none", sensor_id |-> 0, hours |-> <<>>, in_readings |-> FALSE,
              status |-> 0, body |-> NoBody]

InitRest == restResponse = NoRequest

\* sensors_dict.get(sensor_id) is not None
InReadings(sensor_id) == sensor_id \in Cameras /\ sensors[sensor_id] # NoReading

\* a lookup that answers an id without a reading with an empty reading
_get_sensor_or_default(sensor_id) ==
    IF InReadings(sensor_id) THEN <<sensors[sensor_id]>> ELSE <<NoReading>>

\* _get_sensor: <<the reading>>, or <<>> when it raises HTTPException(404)
_get_sensor(sensor_id) ==
    IF InReadings(sensor_id) THEN <<sensors[sensor_id]>> ELSE <<>>

\* the response to a request: what was asked, whether the id had a reading
\* when the handler ran, and the answer
Response(endpoint, sensor_id, hours, status, body) ==
    [endpoint |-> endpoint, sensor_id |-> sensor_id, hours |-> hours,
     in_readings |-> InReadings(sensor_id), status |-> status, body |-> body]

\* main.py installs a ForecastService under services["forecast"]
HasForecastService == TRUE

\* GET /api/sensors/{sensor_id}
GetSensor ==
    /\ Suspended
    /\ \E sensor_id \in RequestIds :
          LET sensor == _get_sensor(sensor_id)
          IN restResponse' =
                IF sensor = <<>>
                THEN Response("sensor", sensor_id, <<>>, HTTP_NOT_FOUND, NoBody)
                ELSE Response("sensor", sensor_id, <<>>, HTTP_OK,
                              [kind |-> "sensor", reading |-> sensor[1]])

\* GET /api/sensors/{sensor_id}/history?hours=: the query parameter is
\* validated before the handler runs
GetSensorHistory ==
    /\ Suspended
    /\ \E sensor_id \in RequestIds, hours_arg \in HoursArgs :
          LET hours == IF hours_arg = <<>> THEN HISTORY_HOURS_DEFAULT ELSE hours_arg[1]
              sensor == _get_sensor(sensor_id)
          IN restResponse' =
                IF hours < HISTORY_HOURS_MIN \/ hours > HISTORY_HOURS_MAX
                THEN Response("history", sensor_id, hours_arg, HTTP_UNPROCESSABLE, NoBody)
                ELSE IF sensor = <<>>
                THEN Response("history", sensor_id, hours_arg, HTTP_NOT_FOUND, NoBody)
                ELSE Response("history", sensor_id, hours_arg, HTTP_OK,
                              [kind |-> "history", sensor_id |-> sensor_id, hours |-> hours])

\* what the forecaster answers for an id: the number of points
ForecastFor(sensor_id) ==
    Len(generate_forecast(fsvc, now, sensor_id, REST_FORECAST_HOURS,
                          REST_FORECAST_INTERVAL, FALSE, "zero").points)

\* GET /api/forecast/{sensor_id}
GetForecast ==
    /\ Suspended
    /\ \E sensor_id \in RequestIds :
          LET sensor == _get_sensor(sensor_id)
          IN restResponse' =
                IF sensor = <<>>
                THEN Response("forecast", sensor_id, <<>>, HTTP_NOT_FOUND, NoBody)
                ELSE IF ~HasForecastService
                THEN Response("forecast", sensor_id, <<>>, HTTP_UNAVAILABLE, NoBody)
                ELSE Response("forecast", sensor_id, <<>>, HTTP_OK,
                              [kind |-> "forecast", points |-> ForecastFor(sensor_id)])

\* the last request named an id that had no reading when its handler ran
AskedUnknown == restResponse.endpoint # "none" /\ ~restResponse.in_readings

\* the last request was a history request whose hours are out of range
HoursRejected ==
    /\ restResponse.endpoint = "history"
    /\ restResponse.hours # <<>>
    /\ \/ restResponse.hours[1] < HISTORY_HOURS_MIN
       \/ restResponse.hours[1] > HISTORY_HOURS_MAX

\* C14 as stated: a request for the reading, the history or the forecast of an
\* id that is not in the current readings is answered with 404 and no data.
C14_UnknownIsNotFound ==
    AskedUnknown => (restResponse.status = HTTP_NOT_FOUND /\ restResponse.body = NoBody)

\* C14, amended: such a request is answered with no data and with 404, except
\* that a history request whose hours are outside 1..168 is answered with 422;
\* the forecaster itself answers the same id with a forecast.
C14_UnknownIsRefused ==
    AskedUnknown =>
        /\ restResponse.body = NoBody
        /\ restResponse.status = IF HoursRejected THEN HTTP_UNPROCESSABLE ELSE HTTP_NOT_FOUND
        /\ ForecastFor(restResponse.sensor_id) > 0

\* C14 witness: while other cameras have readings, the forecast of an id no
\* camera has was asked for and answered with 404 and no data
C14_Witness ==
    /\ restResponse.endpoint = "forecast"
    /\ restResponse.sensor_id = UnknownCamera
    /\ ~restResponse.in_readings
    /\ restResponse.status = HTTP_NOT_FOUND
    /\ restResponse.body = NoBody
    /\ \A c \in Cameras : sensors[c] # NoReading
    /\ ForecastFor(UnknownCamera) = 12

(***************************************************************************)
(* The emission and dispersion engine (services/physics_engine.py).        *)
(* Vehicle counts are integers, emission rates are in mg/s, wind speeds in *)
(* tenths of m/s, temperature in whole degrees, humidity in whole percent. *)
(* Concentrations are in hundredths of ug/m3 up to the final rounding and  *)
(* in tenths of ug/m3 after it.  The receptor of calculate_pollution is    *)
(* fixed (50 m downwind, 0 m crosswind, 1.5 m high, source at 0.5 m), so   *)
(* the plume equation reduces to Q * k / u with one k per stability class. *)
(***************************************************************************)
\* _gaussian_plume: u < 0.3 is calm, u is clamped to 0.5
CALM_WIND == 3
MIN_WIND == 5
\* box model: (Q * 1e6) / (200 * 200 * 100) * 0.5 ug/m3 is Q[mg/s] / 80 hundredths
BOX_MG_PER_HUNDREDTH == 80
\* _get_stability_class: the daytime hours and the wind speed limits
DAY_FROM == 7
DAY_TO == 18
WIND_2 == 20
WIND_3 == 30
WIND_5 == 50
\* calculate_pollution: background levels (hundredths), the reference points of
\* the corrections and the floors of the result (tenths)
BACKGROUND_PM25 == 500
BACKGROUND_PM10 == 1200
BACKGROUND_NO2 == 1500
BACKGROUND_CO == 20000
TEMP_REFERENCE == 20
TEMP_PER == 100
HUMIDITY_REFERENCE == 60
HUMIDITY_PER == 200
FLOOR_PM25 == 10
FLOOR_PM10 == 20
FLOOR_NO2 == 20
FLOOR_CO == 500
\* the top of the AQI scale
AQI_MAX == 500

\* _EMISSION_FACTORS, in mg per vehicle per second
EMISSION_FACTORS ==
    [trucks      |-> [pm25 |-> 70, pm10 |-> 120, no2 |-> 2500, co |-> 1800],
     cars        |-> [pm25 |-> 5,  pm10 |-> 10,  no2 |-> 150,  co |-> 1200],
     buses       |-> [pm25 |-> 55, pm10 |-> 95,  no2 |-> 2100, co |-> 1500],
     motorcycles |-> [pm25 |-> 8,  pm10 |-> 15,  no2 |-> 100,  co |-> 2500]]

\* _STABILITY_PARAMS at the receptor: 1e6 * vertical / (2 pi sigma_y sigma_z)
\* for x = 50 m, z = 1.5 m, H = 0.5 m, in ug/m3 per g/s at 1 m/s
STABILITY_PARAMS ==
    [A |-> 2002, B |-> 4019, C |-> 6830, D |-> 10618, E |-> 20817, F |-> 36739]

\* _AQI_BREAKPOINTS: pm25 in tenths
AQI_BREAKPOINTS ==
    <<[bp_lo |-> 0,    bp_hi |-> 120,  aqi_lo |-> 0,   aqi_hi |-> 50,  label |-> "Good"],
      [bp_lo |-> 121,  bp_hi |-> 354,  aqi_lo |-> 51,  aqi_hi |-> 100, label |-> "Moderate"],
      [bp_lo |-> 355,  bp_hi |-> 554,  aqi_lo |-> 101, aqi_hi |-> 150,
       label |-> "Unhealthy for Sensitive Groups"],
      [bp_lo |-> 555,  bp_hi |-> 1504, aqi_lo |-> 151, aqi_hi |-> 200, label |-> "Unhealthy"],
      [bp_lo |-> 1505, bp_hi |-> 2504, aqi_lo |-> 201, aqi_hi |-> 300,
       label |-> "Very Unhealthy"],
      [bp_lo |-> 2505, bp_hi |-> 5004, aqi_lo |-> 301, aqi_hi |-> 500, label |-> "Hazardous"]>>

VARIABLES
    physCall   \* the last call of the engine: its operation, arguments and result

physVars == <<physCall>>

\* _get_stability_class(wind_speed, hour)
_get_stability_class(wind_speed, hour) ==
    IF DAY_FROM <= hour /\ hour <= DAY_TO
    THEN IF wind_speed < WIND_2 THEN "A"
         ELSE IF wind_speed < WIND_3 THEN "B"
         ELSE IF wind_speed < WIND_5 THEN "C"
         ELSE "D"
    ELSE IF wind_speed < WIND_3 THEN "F"
         ELSE IF wind_speed < WIND_5 THEN "E"
         ELSE "D"

\* _gaussian_plume(Q, u, 50, 0, 1.5, 0.5, stability), in hundredths of ug/m3
_gaussian_plume(Q, u, stability) ==
    IF u < CALM_WIND
    THEN Q \div BOX_MG_PER_HUNDREDTH
    ELSE (Q * STABILITY_PARAMS[stability]) \div Max(u, MIN_WIND)

\* calculate_emission_rate(vehicle_counts)[pollutant]
calculate_emission_rate(vehicle_counts, pollutant) ==
    vehicle_counts.trucks * EMISSION_FACTORS.trucks[pollutant]
    + vehicle_counts.cars * EMISSION_FACTORS.cars[pollutant]
    + vehicle_counts.buses * EMISSION_FACTORS.buses[pollutant]
    + vehicle_counts.motorcycles * EMISSION_FACTORS.motorcycles[pollutant]

\* x * num / den, rounded down, without the intermediate product x * num
TimesFactor(x, num, den) == (x \div den) * num + ((x % den) * num) \div den

\* pm25 = max(0.0, pm25) without the clamp
Unclamped(pm25) == pm25

\* pm25 = max(0.0, pm25)
ClampPm25(pm25) == Max(0, pm25)

\* the inputs whose interpolated value lies half way between two integers in
\* exact arithmetic and above it in binary floating point: at 5.4 the code
\* computes (50 / 12.0) * 5.4 = 22.500000000000004
AboveHalfInFloat == {54}

\* round(aqi) of the interpolation over one breakpoint row
Interpolate(bp, pm25) ==
    LET num == (bp.aqi_hi - bp.aqi_lo) * (pm25 - bp.bp_lo)
        den == bp.bp_hi - bp.bp_lo
    IN bp.aqi_lo + (IF pm25 \in AboveHalfInFloat /\ 2 * (num % den) = den
                    THEN num \div den + 1
                    ELSE RoundDiv(num, den))

\* the for loop of pm25_to_aqi from row i on
RECURSIVE AqiFrom(_, _)
AqiFrom(pm25, i) ==
    IF i > Len(AQI_BREAKPOINTS) THEN AQI_MAX
    ELSE IF pm25 <= AQI_BREAKPOINTS[i].bp_hi THEN Interpolate(AQI_BREAKPOINTS[i], pm25)
    ELSE AqiFrom(pm25, i + 1)

\* pm25_to_aqi(pm25), pm25 in tenths
pm25_to_aqi(pm25) == AqiFrom(ClampPm25(pm25), 1)

\* get_aqi_category(aqi)
get_aqi_category(aqi) ==
    IF aqi <= 50 THEN "Good"
    ELSE IF aqi <= 100 THEN "Moderate"
    ELSE IF aqi <= 150 THEN "Unhealthy for Sensitive Groups"
    ELSE IF aqi <= 200 THEN "Unhealthy"
    ELSE IF aqi <= 300 THEN "Very Unhealthy"
    ELSE "Hazardous"

\* round(x, 1) without the floor
Unfloored(floor, x) == RoundDiv(x, 10)

\* max(floor, round(x, 1)): x in hundredths, the result in tenths
Floored(floor, x) == Max(floor, RoundDiv(x, 10))

\* calculate_pollution(vehicles, weather, hour); noise holds the four draws of
\* random.gauss, in hundredths
calculate_pollution(vehicles, weather, hour, noise) ==
    LET stability == _get_stability_class(weather.wind_speed, hour)
        plume(p) == _gaussian_plume(calculate_emission_rate(vehicles, p),
                                    weather.wind_speed, stability)
        temp_factor == TEMP_PER + Max(0, weather.temperature - TEMP_REFERENCE)
        humidity_factor == HUMIDITY_PER + Max(0, weather.humidity - HUMIDITY_REFERENCE)
        pm25 == Floored(FLOOR_PM25, TimesFactor(plume("pm25") + BACKGROUND_PM25 + noise.pm25,
                                                humidity_factor, HUMIDITY_PER))
        pm10 == Floored(FLOOR_PM10, TimesFactor(plume("pm10") + BACKGROUND_PM10 + noise.pm10,
                                                humidity_factor, HUMIDITY_PER))
        no2 == Floored(FLOOR_NO2, TimesFactor(plume("no2") + BACKGROUND_NO2 + noise.no2,
                                              temp_factor, TEMP_PER))
        co == Floored(FLOOR_CO, plume("co") + BACKGROUND_CO + noise.co)
        aqi == pm25_to_aqi(pm25)
    IN [pm25 |-> pm25, pm10 |-> pm10, no2 |-> no2, co |-> co,
        aqi |-> aqi, category |-> get_aqi_category(aqi)]

\* the inputs the calls are drawn from
VehicleInputs ==
    {[trucks |-> 0, cars |-> 0, buses |-> 0, motorcycles |-> 0],
     [trucks |-> 0, cars |-> 1, buses |-> 0, motorcycles |-> 0],
     [trucks |-> 0, cars |-> 0, buses |-> 0, motorcycles |-> 1],
     [trucks |-> 1, cars |-> 2, buses |-> 0, motorcycles |-> 1],
     [trucks |-> 3, cars |-> 3, buses |-> 3, motorcycles |-> 3],
     [trucks |-> -1, cars |-> 0, buses |-> 0, motorcycles |-> 0]}
WindInputs == {0, 2, 4, 15, 25, 40, 60, 200}
WeatherInputs ==
    {[wind_speed |-> w, temperature |-> t, humidity |-> h] :
        w \in WindInputs, t \in {-5, 30}, h \in {50, 100}}
HourInputs == {3, 12}
NoiseInputs ==
    {[pm25 |-> 0, pm10 |-> 0, no2 |-> 0, co |-> 0],
     [pm25 |-> 150, pm10 |-> 300, no2 |-> 450, co |-> 6000],
     [pm25 |-> -600, pm10 |-> -1300, no2 |-> -1600, co |-> -21000]}
Pm25Inputs == -30 .. 5100

\* ---- calculate_concentration_grid.  Positions are in metres east and
\* north of a reference point, emission rates in hundredths of g/s, wind
\* speeds in tenths of m/s, wind directions in whole multiples of 90 degrees,
\* concentrations in thousandths of ug/m3 until the final rounding. ----
GRID_BACKGROUND == 5000
MIN_DOWNWIND == 1

\* math.sin and math.cos of the wind direction
WindSin(wd) == CASE wd = 0 -> 0 [] wd = 90 -> 1 [] wd = 180 -> 0 [] wd = 270 -> -1
WindCos(wd) == CASE wd = 0 -> 1 [] wd = 90 -> 0 [] wd = 180 -> -1 [] wd = 270 -> 0

\* _gaussian_plume(Q = 1 g/s, u = 3 m/s, x, y, z = 1.5, H = 0.5, stability),
\* in thousandths of ug/m3, at the downwind and crosswind distances of the
\* grids of the model (200 and 400 m downwind; 0, 200 and 400 m across) and
\* for the classes a 3 m/s wind has by day (C) and by night (E)
PlumeAtThree(stability, x, y) ==
    CASE stability = "C" /\ x = 200 /\ y = 0 -> 204233
      [] stability = "C" /\ x = 400 /\ y = 0 -> 60425
      [] stability = "C" /\ x = 400 /\ y = 200 -> 9
      [] stability = "E" /\ x = 200 /\ y = 0 -> 811638
      [] stability = "E" /\ x = 400 /\ y = 0 -> 263367
      [] OTHER -> 0

\* _gaussian_plume(Q, u, x, y, z, H, stability) as the grid calls it, with
\* x > 0: the box value Q * 1e6 / (200 * 200 * 100) * 0.5 below 0.3 m/s, the
\* plume value otherwise (ws = 3 m/s in the model)
PlumeOnGrid(Q, u, x, y, stability) ==
    IF u < CALM_WIND THEN (Q * 125) \div 100
    ELSE (Q * PlumeAtThree(stability, x, Abs(y))) \div 100

\* x_wind = dx_m * sin(wind_rad) + dy_m * cos(wind_rad)
XWind(dx_m, dy_m, wd) == dx_m * WindSin(wd) + dy_m * WindCos(wd)

\* y_wind = dx_m * cos(wind_rad) - dy_m * sin(wind_rad)
YWind(dx_m, dy_m, wd) == dx_m * WindCos(wd) - dy_m * WindSin(wd)

\* what one sensor adds to the cell at (cell_lat, cell_lng)
Contribution(sensor, cell_lat, cell_lng, hour) ==
    LET stability == _get_stability_class(sensor.wind_speed, hour)
        dy_m == cell_lat - sensor.lat
        dx_m == cell_lng - sensor.lng
        x_wind == XWind(dx_m, dy_m, sensor.wind_direction)
        y_wind == YWind(dx_m, dy_m, sensor.wind_direction)
    IN IF x_wind > MIN_DOWNWIND
       THEN PlumeOnGrid(sensor.emission_rate, sensor.wind_speed, x_wind, y_wind, stability)
       ELSE 0

\* calculate_concentration_grid(sensors, grid_bounds, resolution) at the given
\* hour of the day: rows from north to south, values in hundredths of ug/m3
calculate_concentration_grid(sensor_list, grid_bounds, resolution, hour) ==
    LET lat_step == (grid_bounds.north - grid_bounds.south) \div resolution
        lng_step == (grid_bounds.east - grid_bounds.west) \div resolution
        cell_lat(row) == grid_bounds.north - ((2 * row - 1) * lat_step) \div 2
        cell_lng(col) == grid_bounds.west + ((2 * col - 1) * lng_step) \div 2
        total(row, col) ==
            SumSeq([i \in 1..Len(sensor_list) |->
                      Contribution(sensor_list[i], cell_lat(row), cell_lng(col), hour)])
            + GRID_BACKGROUND
    IN [row \in 1..resolution |->
          [col \in 1..resolution |-> RoundDiv(total(row, col), 10)]]

\* the sources, bounds and resolutions explored
GridSources ==
    {[lat |-> 0, lng |-> lng, emission_rate |-> q, wind_speed |-> ws, wind_direction |-> wd] :
        lng \in {0, 200}, q \in {1, 100}, ws \in {2, 30}, wd \in {0, 90, 180, 270}}
SecondSources ==
    {[lat |-> 0, lng |-> 0, emission_rate |-> 100, wind_speed |-> 30, wind_direction |-> wd] :
        wd \in {0, 270}}
GridSensorLists ==
    {<<>>} \cup {<<a>> : a \in GridSources}
           \cup {<<a, b>> : a \in SecondSources, b \in SecondSources}
GridBounds == [north |-> 300, south |-> -300, east |-> 300, west |-> -300]
GridResolutions == {1, 3}

NoPhysCall == [op |-> "none"]

InitPhysics == physCall = NoPhysCall

\* one call of calculate_pollution
CalculatePollution ==
    /\ physCall = NoPhysCall
    /\ \E vehicles \in VehicleInputs, weather \in WeatherInputs, hour \in HourInputs,
          noise \in NoiseInputs :
          physCall' = [op |-> "calculate_pollution", vehicles |-> vehicles,
                       weather |-> weather, hour |-> hour,
                       result |-> calculate_pollution(vehicles, weather, hour, noise)]

\* one call of pm25_to_aqi
Pm25ToAqi ==
    /\ physCall = NoPhysCall
    /\ \E pm25 \in Pm25Inputs :
          physCall' = [op |-> "pm25_to_aqi", pm25 |-> pm25, result |-> pm25_to_aqi(pm25)]

\* one call of calculate_concentration_grid
CalculateConcentrationGrid ==
    /\ physCall = NoPhysCall
    /\ \E sensor_list \in GridSensorLists, resolution \in GridResolutions,
          hour \in HourInputs :
          physCall' = [op |-> "calculate_concentration_grid", sensor_list |-> sensor_list,
                       resolution |-> resolution, hour |-> hour,
                       result |-> calculate_concentration_grid(sensor_list, GridBounds,
                                                               resolution, hour)]

\* C15: every reading calculate_pollution returns has pm25, pm10, no2 and
\* co >= 0, an aqi in 0..500 that is the AQI of its pm25, and the category of
\* the AQI band that contains its aqi.
C15_ReadingWellFormed ==
    physCall.op = "calculate_pollution" =>
        LET r == physCall.result
        IN /\ r.pm25 >= 0 /\ r.pm10 >= 0 /\ r.no2 >= 0 /\ r.co >= 0
           /\ r.aqi \in 0..AQI_MAX
           /\ r.aqi = pm25_to_aqi(r.pm25)
           /\ \E i \in 1..Len(AQI_BREAKPOINTS) :
                 /\ AQI_BREAKPOINTS[i].aqi_lo <= r.aqi /\ r.aqi <= AQI_BREAKPOINTS[i].aqi_hi
                 /\ r.category = AQI_BREAKPOINTS[i].label

\* C15 witness: a reading for no vehicles in calm air whose background and
\* noise sum below zero came back at the floors, in the lowest band
C15_Witness ==
    /\ physCall.op = "calculate_pollution"
    /\ physCall.weather.wind_speed = 0
    /\ physCall.vehicles = [trucks |-> 0, cars |-> 0, buses |-> 0, motorcycles |-> 0]
    /\ physCall.result.pm25 = FLOOR_PM25
    /\ physCall.result.co = FLOOR_CO
    /\ physCall.result.aqi = 4
    /\ physCall.result.category = "Good"

\* C16: pm25_to_aqi maps 0.0 to 0, 12.0 to 50, 35.4 to 100 and 500.4 to 500;
\* for every input to one decimal place the result is in 0..500, is 0 for a
\* negative input and 500 above 500.4, and is not below the result for any
\* smaller input.
C16_AqiMonotoneInRange ==
    physCall.op = "pm25_to_aqi" =>
        /\ physCall.result \in 0..AQI_MAX
        /\ physCall.pm25 = 0 => physCall.result = 0
        /\ physCall.pm25 = 120 => physCall.result = 50
        /\ physCall.pm25 = 354 => physCall.result = 100
        /\ physCall.pm25 = 5004 => physCall.result = 500
        /\ physCall.pm25 < 0 => physCall.result = 0
        /\ physCall.pm25 > 5004 => physCall.result = 500
        /\ \A step \in {1, 2, 10, 100, 1000, 6000} :
              pm25_to_aqi(physCall.pm25 - step) <= physCall.result

\* C16 witness: the input 5.4, whose interpolated value is 22.5, gave 23
C16_Witness ==
    /\ physCall.op = "pm25_to_aqi"
    /\ physCall.pm25 = 54
    /\ physCall.result = 23
    /\ pm25_to_aqi(53) = 22
    /\ pm25_to_aqi(55) = 23

\* the unit vector <<east, north>> of the direction the wind blows toward,
\* for a wind direction given as where the wind comes from
BlowsToward(wd) ==
    CASE wd = 0 -> <<0, -1>> [] wd = 90 -> <<-1, 0>>
      [] wd = 180 -> <<0, 1>> [] wd = 270 -> <<1, 0>>

\* how far the cell lies from the source in the direction the wind blows
\* toward (negative: on the side the wind comes from)
Along(sensor, resolution, row, col) ==
    LET step == (GridBounds.north - GridBounds.south) \div resolution
        cell_north == GridBounds.north - ((2 * row - 1) * step) \div 2
        cell_east == GridBounds.west + ((2 * col - 1) * step) \div 2
    IN (cell_east - sensor.lng) * BlowsToward(sensor.wind_direction)[1]
       + (cell_north - sensor.lat) * BlowsToward(sensor.wind_direction)[2]

\* C29: with one source and the wind direction in the meteorological "from"
\* convention, only cells on the side the wind blows toward hold more than
\* the background; a cell on the side the wind comes from holds exactly 5.0.
C29_PlumeDownwind ==
    (physCall.op = "calculate_concentration_grid" /\ Len(physCall.sensor_list) = 1) =>
        \A row, col \in 1..physCall.resolution :
            LET along == Along(physCall.sensor_list[1], physCall.resolution, row, col)
                value == physCall.result[row][col]
            IN /\ value > 500 => along > 0
               /\ along < 0 => value = 500

\* what the code does: the plume lies on the side the wind comes from
C29_PlumeUpwind ==
    (physCall.op = "calculate_concentration_grid" /\ Len(physCall.sensor_list) = 1) =>
        \A row, col \in 1..physCall.resolution :
            LET along == Along(physCall.sensor_list[1], physCall.resolution, row, col)
                value == physCall.result[row][col]
            IN /\ value > 500 => along < 0
               /\ along > 0 => value = 500

(***************************************************************************)
(* The health scorer (services/health_service.py).  Concentrations are in  *)
(* tenths of ug/m3, noise levels in tenths of dB, cigarette equivalents in *)
(* hundredths.  The running score of _compute_health_score is kept in      *)
(* units of 1/SCORE_UNIT, in which every penalty is a whole number.        *)
(***************************************************************************)
SCORE_UNIT == 300
SCORE_MAX == 100
\* the guideline thresholds, the weights and the caps of the penalties
WHO_PM25_GUIDELINE == 50
WHO_PM10_GUIDELINE == 150
WHO_NO2_GUIDELINE == 100
NOISE_THRESHOLD == 550
PM25_WEIGHT == 10
PM10_WEIGHT == 5
NO2_WEIGHT == 4
NOISE_HALVES == 20
PM25_CAP == 40
PM10_CAP == 15
NO2_CAP == 15
NOISE_CAP == 15
\* _PM25_PER_CIGARETTE
PM25_PER_CIGARETTE == 220
\* the score and the noise and pm25 limits of _generate_advisory
ADVISORY_NOISE == 700
ADVISORY_PM25 == 550

VARIABLES
    healthCall   \* the last call of the scorer: its operation, arguments and result

healthVars == <<healthCall>>

\* min(cap, excess_ratio * weight) for value > guideline, else no penalty
Penalty(value, guideline, weight, cap) ==
    IF value > guideline
    THEN Min(cap * SCORE_UNIT, ((value - guideline) * weight * SCORE_UNIT) \div guideline)
    ELSE 0

\* min(cap, noise_excess * 0.5) for noise_db > 55.0, else no penalty
NoisePenalty(noise_db) ==
    IF noise_db > NOISE_THRESHOLD
    THEN Min(NOISE_CAP * SCORE_UNIT, ((noise_db - NOISE_THRESHOLD) * SCORE_UNIT) \div NOISE_HALVES)
    ELSE 0

\* max(0, min(100, score))
ClampScore(score) == Max(0, Min(SCORE_MAX, score))

\* _compute_health_score(pm25, pm10, no2, noise_db)
_compute_health_score(pm25, pm10, no2, noise_db) ==
    ClampScore(RoundDiv(SCORE_MAX * SCORE_UNIT
                        - Penalty(pm25, WHO_PM25_GUIDELINE, PM25_WEIGHT, PM25_CAP)
                        - Penalty(pm10, WHO_PM10_GUIDELINE, PM10_WEIGHT, PM10_CAP)
                        - Penalty(no2, WHO_NO2_GUIDELINE, NO2_WEIGHT, NO2_CAP)
                        - NoisePenalty(noise_db),
                        SCORE_UNIT))

\* a classification whose comparisons are strict
RiskAbove(score) ==
    IF score > 80 THEN "Low"
    ELSE IF score > 60 THEN "Moderate"
    ELSE IF score > 40 THEN "High"
    ELSE IF score > 20 THEN "Very High"
    ELSE "Severe"

\* _determine_risk_level(score)
_determine_risk_level(score) ==
    IF score >= 80 THEN "Low"
    ELSE IF score >= 60 THEN "Moderate"
    ELSE IF score >= 40 THEN "High"
    ELSE IF score >= 20 THEN "Very High"
    ELSE "Severe"

\* _compute_cigarette_equivalent(pm25) for the default 24 hours, in hundredths
_compute_cigarette_equivalent(pm25) ==
    IF pm25 <= 0 THEN 0 ELSE RoundDiv(pm25 * 100, PM25_PER_CIGARETTE)

\* _generate_advisory(score, pm25, noise_db): the text, by its parts
_generate_advisory(score, pm25, noise_db) ==
    IF score >= 80 THEN <<"safe">>
    ELSE IF score >= 60
    THEN <<"sensitive limit">> \o (IF noise_db > ADVISORY_NOISE THEN <<"hearing">> ELSE <<>>)
    ELSE IF score >= 40
    THEN <<"everyone reduce">> \o (IF pm25 > ADVISORY_PM25 THEN <<"masks">> ELSE <<>>)
    ELSE IF score >= 20 THEN <<"health alert">>
    ELSE <<"emergency">>

\* calculate_health_impact(pollution, noise)
calculate_health_impact(pollution, noise) ==
    LET score == _compute_health_score(pollution.pm25, pollution.pm10, pollution.no2,
                                       noise.db_level)
    IN [score |-> score,
        risk_level |-> _determine_risk_level(score),
        equivalent_cigarettes |-> _compute_cigarette_equivalent(pollution.pm25),
        vulnerable_advisory |-> _generate_advisory(score, pollution.pm25, noise.db_level)]

\* risk_order of get_aggregate_health_summary
risk_order == <<"Low", "Moderate", "High", "Very High", "Severe">>

\* risk_order.index(level): <<the index>>, or <<>> when it raises ValueError
IndexOf(level) ==
    IF \E i \in 1..Len(risk_order) : risk_order[i] = level
    THEN <<CHOOSE i \in 1..Len(risk_order) : risk_order[i] = level>>
    ELSE <<>>

\* the number of entries of the list whose level is the given one
CountLevel(health_data_list, level) ==
    Cardinality({i \in 1..Len(health_data_list) : health_data_list[i].risk_level = level})

\* level_counts after the counting loop: the five levels and every other level met
LevelCounts(health_data_list) ==
    [level \in {risk_order[i] : i \in 1..Len(risk_order)}
               \cup {health_data_list[i].risk_level : i \in 1..Len(health_data_list)}
       |-> CountLevel(health_data_list, level)]

\* max(...) over a non-empty list of indices
MaxIndex(indices) == CHOOSE m \in indices : \A k \in indices : k <= m

\* get_aggregate_health_summary(health_data_list)
get_aggregate_health_summary(health_data_list) ==
    IF Len(health_data_list) = 0
    THEN [outcome |-> "returned",
          avg_score |-> SCORE_MAX,
          worst_risk_level |-> "Low",
          avg_equivalent_cigarettes |-> 0,
          advisory_count_by_level |-> [level \in {risk_order[i] : i \in 1..Len(risk_order)} |-> 0],
          sensor_count |-> 0]
    ELSE IF \E i \in 1..Len(health_data_list) : IndexOf(health_data_list[i].risk_level) = <<>>
    THEN [outcome |-> "raised"]
    ELSE [outcome |-> "returned",
          avg_score |-> RoundDiv(SumSeq([i \in 1..Len(health_data_list) |->
                                            health_data_list[i].score]),
                                 Len(health_data_list)),
          worst_risk_level |->
              risk_order[MaxIndex({IndexOf(health_data_list[i].risk_level)[1] :
                                      i \in 1..Len(health_data_list)})],
          avg_equivalent_cigarettes |->
              RoundDiv(SumSeq([i \in 1..Len(health_data_list) |->
                                  health_data_list[i].equivalent_cigarettes]),
                       Len(health_data_list)),
          advisory_count_by_level |-> LevelCounts(health_data_list),
          sensor_count |-> Len(health_data_list)]

\* the inputs the calls are drawn from; the cigarette equivalents of the
\* assessments are even, so that no mean of them lies half way between two
\* hundredths, where the binary value of the quotient decides the rounding
HealthPm25 == {-10, 50, 51, 149, 150, 151, 250, 2000}
HealthPm10 == {0, 150, 600, 3000}
HealthNo2 == {0, 100, 475, 1500}
HealthNoise == {400, 550, 650, 740, 750, 760, 850, 1200}
Assessments ==
    {[score |-> 80, risk_level |-> "Low", equivalent_cigarettes |-> 50],
     [score |-> 50, risk_level |-> "High", equivalent_cigarettes |-> 250],
     [score |-> 49, risk_level |-> "High", equivalent_cigarettes |-> 0],
     [score |-> 15, risk_level |-> "Severe", equivalent_cigarettes |-> 910],
     [score |-> 30, risk_level |-> "Very High", equivalent_cigarettes |-> 300],
     [score |-> 90, risk_level |-> "Moderate", equivalent_cigarettes |-> 100],
     [score |-> 50, risk_level |-> "Extreme", equivalent_cigarettes |-> 250]}
AssessmentLists ==
    {<<>>} \cup {<<a>> : a \in Assessments}
           \cup {<<a, b>> : a, b \in Assessments}
           \cup {<<a, b, c>> : a, b, c \in Assessments}

NoHealthCall == [op |-> "none"]

InitHealth == healthCall = NoHealthCall

\* one call of calculate_health_impact
CalculateHealthImpact ==
    /\ healthCall = NoHealthCall
    /\ \E pm25 \in HealthPm25, pm10 \in HealthPm10, no2 \in HealthNo2,
          db_level \in HealthNoise :
          healthCall' =
              [op |-> "calculate_health_impact",
               pollution |-> [pm25 |-> pm25, pm10 |-> pm10, no2 |-> no2],
               noise |-> [db_level |-> db_level],
               result |-> calculate_health_impact([pm25 |-> pm25, pm10 |-> pm10, no2 |-> no2],
                                                  [db_level |-> db_level])]

\* one call of get_aggregate_health_summary
GetAggregateHealthSummary ==
    /\ healthCall = NoHealthCall
    /\ \E health_data_list \in AssessmentLists :
          healthCall' = [op |-> "get_aggregate_health_summary",
                         health_data_list |-> health_data_list,
                         result |-> get_aggregate_health_summary(health_data_list)]

\* C17: the health score is an integer in 0..100 and the risk level is
\* determined by the score: Low from 80, Moderate for 60..79, High for 40..59,
\* Very High for 20..39, Severe below 20.
C17_ScoreAndRisk ==
    healthCall.op = "calculate_health_impact" =>
        LET score == healthCall.result.score
            level == healthCall.result.risk_level
        IN /\ score \in 0..100
           /\ level = "Low" <=> score >= 80
           /\ level = "Moderate" <=> score \in 60..79
           /\ level = "High" <=> score \in 40..59
           /\ level = "Very High" <=> score \in 20..39
           /\ level = "Severe" <=> score < 20

\* C17 witness: an assessment with score exactly 20, the lowest Very High, and
\* every penalty in force
C17_Witness ==
    /\ healthCall.op = "calculate_health_impact"
    /\ healthCall.result.score = 20
    /\ healthCall.result.risk_level = "Very High"
    /\ healthCall.pollution.pm25 > WHO_PM25_GUIDELINE
    /\ healthCall.pollution.pm10 > WHO_PM10_GUIDELINE
    /\ healthCall.pollution.no2 > WHO_NO2_GUIDELINE
    /\ healthCall.noise.db_level > NOISE_THRESHOLD

\* the position of a level in Low < Moderate < High < Very High < Severe, 0 for
\* any other level
Severity(level) == IF IndexOf(level) = <<>> THEN 0 ELSE IndexOf(level)[1]

VARIABLES visPc, simulation_mode, _previous_counts, detected, detects
visionVars == <<visPc, simulation_mode, _previous_counts, detected, detects>>

MaxDetect == 3

_COCO_CAR == 2
_COCO_MOTORCYCLE == 3
_COCO_BUS == 5
_COCO_TRUCK == 7
SMOOTH_NEW == 6
SMOOTH_OLD == 4
SMOOTH_UNIT == 10

VisionIds == {"cam-001", "cam-unlisted"}

\* round(noisy) for cars, trucks, buses, motorcycles
NoisyReadings ==
    {<<0, 0, 0, 0>>, <<-2, 0, 3, 7>>, <<7, 3, -2, 0>>, <<40, 5, 8, 15>>}

\* results[0].boxes.cls.tolist(): class ids, vehicles or not
Detections == {<<>>, <<2, 2, 7, 0>>, <<3, 5, 2, 2, 7, 9>>}

NoFrame == <<>>
Frames == {NoFrame} \cup {<<d>> : d \in Detections}

VehicleCounts(trucks, cars, buses, motorcycles, total) ==
    [trucks |-> trucks, cars |-> cars, buses |-> buses,
     motorcycles |-> motorcycles, total |-> total]

\* list.count(x)
ListCount(list, x) == Cardinality({i \in 1..Len(list) : list[i] = x})

_run_yolo(frame) ==
    LET detections == frame[1]
        trucks == ListCount(detections, _COCO_TRUCK)
        cars == ListCount(detections, _COCO_CAR)
        buses == ListCount(detections, _COCO_BUS)
        motorcycles == ListCount(detections, _COCO_MOTORCYCLE)
    IN VehicleCounts(trucks, cars, buses, motorcycles,
                     trucks + cars + buses + motorcycles)

\* the noisy value returned as it is
NoisyUnclamped(noisy) == noisy

\* max(0, round(noisy))
_noisy_count(noisy) == Max(0, noisy)

_simulate_traffic(noisy) ==
    LET cars == _noisy_count(noisy[1])
        trucks == _noisy_count(noisy[2])
        buses == _noisy_count(noisy[3])
        motorcycles == _noisy_count(noisy[4])
    IN VehicleCounts(trucks, cars, buses, motorcycles,
                     cars + trucks + buses + motorcycles)

\* round(alpha * new + (1 - alpha) * prev) with alpha = 0.6; the sum is a
\* whole number of even tenths, so no value lies halfway
SmoothCount(new, prev) == RoundDiv(SMOOTH_NEW * new + SMOOTH_OLD * prev, SMOOTH_UNIT)

_smooth(previous, camera_id, new) ==
    IF previous[camera_id] = <<>> THEN new
    ELSE LET prev == previous[camera_id][1]
             cars == SmoothCount(new.cars, prev.cars)
             trucks == SmoothCount(new.trucks, prev.trucks)
             buses == SmoothCount(new.buses, prev.buses)
             motorcycles == SmoothCount(new.motorcycles, prev.motorcycles)
         IN VehicleCounts(trucks, cars, buses, motorcycles,
                          cars + trucks + buses + motorcycles)

NoDetection == [camera_id |-> "", raw |-> <<>>, smoothed |-> FALSE, counts |-> <<>>]

\* VisionService() up to the call of _try_load_model
InitVision ==
    /\ visPc = "loading"
    /\ simulation_mode = TRUE
    /\ _previous_counts = [c \in VisionIds |-> <<>>]
    /\ detected = NoDetection
    /\ detects = 0

\* _try_load_model(): the network loads, or the import or the load fails
TryLoadModel ==
    /\ visPc = "loading"
    /\ visPc' = "ready"
    /\ simulation_mode' \in BOOLEAN
    /\ UNCHANGED <<_previous_counts, detected, detects>>

\* detect_vehicles(camera_id, frame)
DetectVehicles ==
    /\ visPc = "ready"
    /\ detects < MaxDetect
    /\ \E camera_id \in VisionIds, frame \in Frames, noisy \in NoisyReadings :
          LET raw == IF ~simulation_mode /\ frame # NoFrame
                     THEN _run_yolo(frame)
                     ELSE _simulate_traffic(noisy)
              counts == _smooth(_previous_counts, camera_id, raw)
          IN /\ _previous_counts' = [_previous_counts EXCEPT ![camera_id] = <<counts>>]
             /\ detected' = [camera_id |-> camera_id, raw |-> <<raw>>,
                             smoothed |-> _previous_counts[camera_id] # <<>>,
                             counts |-> <<counts>>]
    /\ detects' = detects + 1
    /\ UNCHANGED <<visPc, simulation_mode>>

WellFormedCounts(c) ==
    /\ c.trucks >= 0 /\ c.cars >= 0 /\ c.buses >= 0 /\ c.motorcycles >= 0
    /\ c.total = c.trucks + c.cars + c.buses + c.motorcycles

\* C22: every VehicleCounts returned by detect_vehicles, the first reading of
\* a location and every reading smoothed against the stored previous one, has
\* non-negative truck, car, bus and motorcycle counts and a total equal to
\* their sum.
C22_CountsWellFormed ==
    /\ detected # NoDetection => WellFormedCounts(detected.counts[1])
    /\ \A c \in VisionIds :
          _previous_counts[c] # <<>> => WellFormedCounts(_previous_counts[c][1])

\* C22 witness: a third reading of one location, smoothed against a stored
\* smoothed reading into counts that differ from the raw ones
C22_Witness ==
    /\ detects >= 3
    /\ _previous_counts["cam-unlisted"] = <<>>
    /\ detected.smoothed
    /\ detected.counts # detected.raw
    /\ detected.counts[1].total > 0

(***************************************************************************)
(* Specifications: one per component; the other components stand still.    *)
(***************************************************************************)
vars == <<loopVars, fcVars, routeVars, callerVars, meshVars, restVars, physVars, healthVars, visionVars>>

\* the update cycle
Init ==
    /\ InitLoop /\ InitForecast /\ fsvc = NewForecastService /\ InitRoute /\ InitMesh
    /\ InitRest /\ InitPhysics /\ InitHealth /\ InitVision
Next ==
    \/ InitialFetch /\ UNCHANGED <<fcVars, routeVars, callerVars, meshVars, restVars, physVars, healthVars, visionVars>>
    \/ BeginCycle /\ UNCHANGED <<fcVars, routeVars, callerVars, meshVars, restVars, physVars, healthVars, visionVars>>
    \/ ProcessCamera /\ UNCHANGED <<fcVars, routeVars, callerVars, meshVars, restVars, physVars, healthVars, visionVars>>
    \/ CameraRaises /\ UNCHANGED <<fcVars, routeVars, callerVars, meshVars, restVars, physVars, healthVars, visionVars>>
    \/ SaveReturns /\ UNCHANGED <<fcVars, routeVars, callerVars, meshVars, restVars, physVars, healthVars, visionVars>>
    \/ SaveRaises /\ UNCHANGED <<fcVars, routeVars, callerVars, meshVars, restVars, physVars, healthVars, visionVars>>
    \/ PostCycle /\ UNCHANGED <<fcVars, routeVars, callerVars, meshVars, restVars, physVars, healthVars, visionVars>>
    \/ PostRaises /\ UNCHANGED <<fcVars, routeVars, callerVars, meshVars, restVars, physVars, healthVars, visionVars>>
    \/ BroadcastReturns /\ UNCHANGED <<fcVars, routeVars, callerVars, meshVars, restVars, physVars, healthVars, visionVars>>
    \/ Wake /\ UNCHANGED <<fcVars, routeVars, callerVars, meshVars, restVars, physVars, healthVars, visionVars>>
    \/ Cancel /\ UNCHANGED <<fcVars, routeVars, callerVars, meshVars, restVars, physVars, healthVars, visionVars>>
    \/ WeatherFetched /\ UNCHANGED <<fcVars, routeVars, callerVars, meshVars, restVars, physVars, healthVars, visionVars>>
    \/ WeatherWake /\ UNCHANGED <<fcVars, routeVars, callerVars, meshVars, restVars, physVars, healthVars, visionVars>>
    \/ GetSensorsList /\ UNCHANGED <<fcVars, routeVars, callerVars, meshVars, restVars, physVars, healthVars, visionVars>>
Spec == Init /\ [][Next]_vars

\* the forecaster
ForecastInit ==
    InitLoop /\ InitForecast /\ InitRoute /\ InitMesh /\ InitRest /\ InitPhysics /\ InitHealth /\ InitVision
ForecastNext ==
    \/ RecordObservation /\ UNCHANGED <<loopVars, routeVars, callerVars, meshVars, restVars, physVars, healthVars, visionVars>>
    \/ AddReading /\ UNCHANGED <<loopVars, routeVars, callerVars, meshVars, restVars, physVars, healthVars, visionVars>>
    \/ Tick /\ UNCHANGED <<loopVars, routeVars, callerVars, meshVars, restVars, physVars, healthVars, visionVars>>
    \/ GenerateForecast /\ UNCHANGED <<loopVars, routeVars, callerVars, meshVars, restVars, physVars, healthVars, visionVars>>
ForecastSpec == ForecastInit /\ [][ForecastNext]_vars

\* the route planner
RouteInit ==
    /\ InitLoop /\ InitForecast /\ fsvc = NewForecastService /\ InitRoute /\ InitMesh
    /\ InitRest /\ InitPhysics /\ InitHealth /\ InitVision
RouteNext ==
    \/ UpdateSensors /\ UNCHANGED <<loopVars, fcVars, meshVars, restVars, physVars, healthVars, visionVars>>
    \/ CallerEdits /\ UNCHANGED <<loopVars, fcVars, meshVars, restVars, physVars, healthVars, visionVars>>
    \/ FindGreenRoute /\ UNCHANGED <<callerVars, loopVars, fcVars, meshVars, restVars, physVars, healthVars, visionVars>>
    \/ AStarStep /\ UNCHANGED <<callerVars, loopVars, fcVars, meshVars, restVars, physVars, healthVars, visionVars>>
    \/ AStarFallback /\ UNCHANGED <<callerVars, loopVars, fcVars, meshVars, restVars, physVars, healthVars, visionVars>>
RouteSpec == RouteInit /\ [][RouteNext]_vars

\* the spatial interpolator
MeshInit == Init
MeshNext == GenerateGrid /\ UNCHANGED <<loopVars, fcVars, routeVars, callerVars, restVars, physVars, healthVars, visionVars>>
MeshSpec == MeshInit /\ [][MeshNext]_vars

\* the REST readers of one location, beside the update cycle without failures
ApiInit == Init
ApiNext ==
    \/ InitialFetch /\ UNCHANGED <<fcVars, routeVars, callerVars, meshVars, restVars, physVars, healthVars, visionVars>>
    \/ BeginCycle /\ UNCHANGED <<fcVars, routeVars, callerVars, meshVars, restVars, physVars, healthVars, visionVars>>
    \/ ProcessCamera /\ UNCHANGED <<fcVars, routeVars, callerVars, meshVars, restVars, physVars, healthVars, visionVars>>
    \/ SaveReturns /\ UNCHANGED <<fcVars, routeVars, callerVars, meshVars, restVars, physVars, healthVars, visionVars>>
    \/ PostCycle /\ UNCHANGED <<fcVars, routeVars, callerVars, meshVars, restVars, physVars, healthVars, visionVars>>
    \/ BroadcastReturns /\ UNCHANGED <<fcVars, routeVars, callerVars, meshVars, restVars, physVars, healthVars, visionVars>>
    \/ Wake /\ UNCHANGED <<fcVars, routeVars, callerVars, meshVars, restVars, physVars, healthVars, visionVars>>
    \/ GetSensor /\ UNCHANGED <<loopVars, fcVars, routeVars, callerVars, meshVars, physVars, healthVars, visionVars>>
    \/ GetSensorHistory /\ UNCHANGED <<loopVars, fcVars, routeVars, callerVars, meshVars, physVars, healthVars, visionVars>>
    \/ GetForecast /\ UNCHANGED <<loopVars, fcVars, routeVars, callerVars, meshVars, physVars, healthVars, visionVars>>
ApiSpec == ApiInit /\ [][ApiNext]_vars

\* the emission and dispersion engine
PhysicsInit == Init
PhysicsNext ==
    \/ CalculatePollution /\ UNCHANGED <<loopVars, fcVars, routeVars, callerVars, meshVars, restVars, healthVars, visionVars>>
    \/ Pm25ToAqi /\ UNCHANGED <<loopVars, fcVars, routeVars, callerVars, meshVars, restVars, healthVars, visionVars>>
    \/ CalculateConcentrationGrid
          /\ UNCHANGED <<loopVars, fcVars, routeVars, callerVars, meshVars, restVars, healthVars, visionVars>>
PhysicsSpec == PhysicsInit /\ [][PhysicsNext]_vars

\* the health scorer
HealthInit == Init
HealthNext ==
    \/ CalculateHealthImpact
          /\ UNCHANGED <<loopVars, fcVars, routeVars, callerVars, meshVars, restVars, physVars, visionVars>>
    \/ GetAggregateHealthSummary
          /\ UNCHANGED <<loopVars, fcVars, routeVars, callerVars, meshVars, restVars, physVars, visionVars>>
HealthSpec == HealthInit /\ [][HealthNext]_vars

\* the vehicle detector
VisionInit == Init
VisionNext ==
    \/ TryLoadModel
          /\ UNCHANGED <<loopVars, fcVars, routeVars, callerVars, meshVars, restVars, physVars, healthVars>>
    \/ DetectVehicles
          /\ UNCHANGED <<loopVars, fcVars, routeVars, callerVars, meshVars, restVars, physVars, healthVars>>
VisionSpec == VisionInit /\ [][VisionNext]_vars

====
